---- MODULE Spec2Model ----
(***************************************************************************)
(* A model of app.py (Aura Calistenia): the JSON document store guarded by *)
(* DATA_LOCK, the session table kept in sessions.json, and the request     *)
(* handlers that read, change and rewrite whole documents.                 *)
(*                                                                         *)
(* A Python str is a sequence of symbols.  A symbol is one character       *)
(* (";", "=", " ") or an atom standing for a run of characters that holds  *)
(* none of these three (a cookie name, a token of secrets.token_urlsafe).  *)
(* An Optional value is a sequence of length 0 (None) or 1.                *)
(***************************************************************************)
EXTENDS Integers, Sequences, FiniteSets, TLC

VARIABLES
    files,      \* path -> [kind, doc]: the documents under DATA_DIR
    now,        \* time.time(), in seconds
    ticks,      \* how often the clock has advanced
    issued,     \* tokens secrets.token_urlsafe has returned so far
    created,    \* history: token -> [user, role, t0] of every create_session
    deleted,    \* history: the tokens delete_session was called with
    lastOp,     \* history: the last call, its arguments and what it returned
    DATA_LOCK,  \* threading.Lock(): TRUE while some thread is inside "with DATA_LOCK"
    pc,         \* thread -> the statement it is at
    inFile,     \* thread -> it is inside the with block of load_json / save_json
    holds,      \* history: thread -> acquisitions of DATA_LOCK it has not released
    local,      \* thread -> the arguments and local variables of its request
    served      \* thread -> requests it has taken

threadVars == <<DATA_LOCK, pc, inFile, holds, local, served>>
vars == <<files, now, ticks, issued, created, deleted, lastOp,
          DATA_LOCK, pc, inFile, holds, local, served>>

-----------------------------------------------------------------------------
(* Program constants *)

SESSION_TTL == 12 * 60 * 60
ADMIN_SESSION_COOKIE == <<"aura_admin_session">>
USER_SESSION_COOKIE == <<"aura_user_session">>
SESSIONS_PATH == "sessions"

(* Bounds of the model *)

MaxTicks == 2
MaxParts == 2

TickSteps == {1, SESSION_TTL - 1}
Tokens == {<<"t1">>, <<"t2">>}
\* ThreadingHTTPServer: one thread per connection
Threads == {"w1", "w2"}
\* (username, role) as handle_admin_login and handle_login pass them to create_session
SessionOwners == {<<"admin", "admin">>, <<"ana", "user">>}
Roles == {"admin", "user"}
NoRole == ""
NoneUser == "None"
None == <<>>
Some(x) == <<x>>

-----------------------------------------------------------------------------
(* str.split, str.strip and dict updates, as Python computes them *)

IndexOf(s, c) ==
    IF \E i \in 1..Len(s) : s[i] = c
    THEN CHOOSE i \in 1..Len(s) : s[i] = c /\ \A j \in 1..(i - 1) : s[j] # c
    ELSE 0

RECURSIVE Split(_, _)
Split(s, c) ==
    LET i == IndexOf(s, c) IN
    IF i = 0 THEN <<s>>
    ELSE <<SubSeq(s, 1, i - 1)>> \o Split(SubSeq(s, i + 1, Len(s)), c)

RECURSIVE LStrip(_)
LStrip(s) == IF s # <<>> /\ Head(s) = " " THEN LStrip(Tail(s)) ELSE s

RECURSIVE RStrip(_)
RStrip(s) ==
    IF s # <<>> /\ s[Len(s)] = " " THEN RStrip(SubSeq(s, 1, Len(s) - 1)) ELSE s

Strip(s) == RStrip(LStrip(s))

StartsWith(s, p) == Len(s) >= Len(p) /\ SubSeq(s, 1, Len(p)) = p

DictSet(d, k, v) == [x \in DOMAIN d \cup {k} |-> IF x = k THEN v ELSE d[x]]
DictKeep(d, k) == d
DictDel(d, k) == [x \in DOMAIN d \ {k} |-> d[x]]
EmptyDict == <<>>

-----------------------------------------------------------------------------
(* json.dump(data, handle, indent=2, ensure_ascii=True) and json.load.      *)
(* A JSON value is a tagged record; a text is a sequence of symbols: the    *)
(* punctuation of JSON, a literal, "ws" for the line break and indentation  *)
(* that indent=2 writes, the double quote, and inside a string one symbol   *)
(* per character, an escaped character being the symbol of its escape.      *)

JNull == [t |-> "null"]
JBool(b) == [t |-> "bool", b |-> b]
JNum(n) == [t |-> "num", n |-> n]
JStr(s) == [t |-> "str", s |-> s]
JArr(a) == [t |-> "arr", a |-> a]
\* an object is the sequence of its (key, value) pairs in insertion order
JObj(o) == [t |-> "obj", o |-> o]

Quote == "\""
Backslash == "\\"
\* ensure_ascii=True: a character outside ASCII is written as \uXXXX
Escapes == << <<Quote, "\\\"">>, <<Backslash, "\\\\">>, <<"é", "\\u00e9">> >>
\* every character is written as it is
EscapedRaw(c) == c
Escaped(c) ==
    IF \E i \in 1..Len(Escapes) : Escapes[i][1] = c
    THEN Escapes[CHOOSE i \in 1..Len(Escapes) : Escapes[i][1] = c][2]
    ELSE c
Unescaped(x) ==
    IF \E i \in 1..Len(Escapes) : Escapes[i][2] = x
    THEN Escapes[CHOOSE i \in 1..Len(Escapes) : Escapes[i][2] = x][1]
    ELSE x

\* int.__repr__ and the int() of the decoder, on the integers of the model
Numerals == << <<0, "0">>, <<7, "7">>, <<12, "12">>, <<-3, "-3">> >>
NumeralOf(n) == Numerals[CHOOSE i \in 1..Len(Numerals) : Numerals[i][1] = n][2]
IsNumeral(x) == \E i \in 1..Len(Numerals) : Numerals[i][2] = x
IntOf(x) == Numerals[CHOOSE i \in 1..Len(Numerals) : Numerals[i][2] = x][1]

DumpStr(s) == <<Quote>> \o [i \in 1..Len(s) |-> Escaped(s[i])] \o <<Quote>>

RECURSIVE Dump(_), DumpItems(_), DumpMembers(_)
Dump(d) ==
    CASE d.t = "null" -> <<"null">>
      [] d.t = "bool" -> <<d.b>>
      [] d.t = "num" -> <<NumeralOf(d.n)>>
      [] d.t = "str" -> DumpStr(d.s)
      [] d.t = "arr" ->
            IF d.a = <<>> THEN <<"[", "]">>
            ELSE <<"[", "ws">> \o DumpItems(d.a) \o <<"ws", "]">>
      [] d.t = "obj" ->
            IF d.o = <<>> THEN <<"{", "}">>
            ELSE <<"{", "ws">> \o DumpMembers(d.o) \o <<"ws", "}">>
DumpItems(a) ==
    IF Len(a) = 1 THEN Dump(a[1])
    ELSE Dump(a[1]) \o <<",", "ws">> \o DumpItems(Tail(a))
DumpMembers(o) ==
    LET member == DumpStr(o[1][1]) \o <<":", "ws">> \o Dump(o[1][2]) IN
    IF Len(o) = 1 THEN member
    ELSE member \o <<",", "ws">> \o DumpMembers(Tail(o))

\* The decoder: each operator reads one construct of text from position i
\* and returns what it read with the position after it, or NoParse.
NoParse == [ok |-> FALSE]
Parsed(v, next) == [ok |-> TRUE, val |-> v, next |-> next]

RECURSIVE SkipWs(_, _)
SkipWs(text, i) ==
    IF i <= Len(text) /\ text[i] = "ws" THEN SkipWs(text, i + 1) ELSE i

RECURSIVE ParseChars(_, _, _)
ParseChars(text, i, acc) ==
    IF i > Len(text) THEN NoParse
    ELSE IF text[i] = Quote THEN Parsed(acc, i + 1)
    ELSE IF text[i] \in {"ws", Backslash} THEN NoParse
    ELSE ParseChars(text, i + 1, Append(acc, Unescaped(text[i])))

ParseString(text, i) ==
    IF i <= Len(text) /\ text[i] = Quote THEN ParseChars(text, i + 1, <<>>)
    ELSE NoParse

\* a later member replaces an earlier one of the same key, at its place
PutMember(o, k, v) ==
    IF \E j \in 1..Len(o) : o[j][1] = k
    THEN [j \in 1..Len(o) |-> IF o[j][1] = k THEN <<k, v>> ELSE o[j]]
    ELSE Append(o, <<k, v>>)

RECURSIVE ParseValue(_, _), ParseItems(_, _, _), ParseMembers(_, _, _)
ParseValue(text, i0) ==
    LET i == SkipWs(text, i0) IN
    IF i > Len(text) THEN NoParse
    ELSE CASE text[i] = "null" -> Parsed(JNull, i + 1)
           [] text[i] \in {"true", "false"} -> Parsed(JBool(text[i]), i + 1)
           [] IsNumeral(text[i]) -> Parsed(JNum(IntOf(text[i])), i + 1)
           [] text[i] = Quote ->
                LET s == ParseString(text, i) IN
                IF s.ok THEN Parsed(JStr(s.val), s.next) ELSE NoParse
           [] text[i] = "[" ->
                LET j == SkipWs(text, i + 1) IN
                IF j <= Len(text) /\ text[j] = "]" THEN Parsed(JArr(<<>>), j + 1)
                ELSE ParseItems(text, j, <<>>)
           [] text[i] = "{" ->
                LET j == SkipWs(text, i + 1) IN
                IF j <= Len(text) /\ text[j] = "}" THEN Parsed(JObj(<<>>), j + 1)
                ELSE ParseMembers(text, j, <<>>)
           [] OTHER -> NoParse
ParseItems(text, i, acc) ==
    LET v == ParseValue(text, i) IN
    IF ~v.ok THEN NoParse
    ELSE LET j == SkipWs(text, v.next) IN
         IF j > Len(text) THEN NoParse
         ELSE IF text[j] = "]" THEN Parsed(JArr(Append(acc, v.val)), j + 1)
         ELSE IF text[j] = "," THEN ParseItems(text, j + 1, Append(acc, v.val))
         ELSE NoParse
ParseMembers(text, i0, acc) ==
    LET k == ParseString(text, SkipWs(text, i0)) IN
    IF ~k.ok THEN NoParse
    ELSE LET c == SkipWs(text, k.next) IN
         IF c > Len(text) \/ text[c] # ":" THEN NoParse
         ELSE LET v == ParseValue(text, c + 1) IN
              IF ~v.ok THEN NoParse
              ELSE LET j == SkipWs(text, v.next)
                       o == PutMember(acc, k.val, v.val) IN
                   IF j > Len(text) THEN NoParse
                   ELSE IF text[j] = "}" THEN Parsed(JObj(o), j + 1)
                   ELSE IF text[j] = "," THEN ParseMembers(text, j + 1, o)
                   ELSE NoParse

\* json.load: one value, then nothing but white space ("Extra data" otherwise)
Decodes(text) ==
    LET v == ParseValue(text, 1) IN
    v.ok /\ SkipWs(text, v.next) > Len(text)
Decoded(text) == ParseValue(text, 1).val

-----------------------------------------------------------------------------
(* load_json / save_json on the documents.  A file is absent, or holds a    *)
(* document (kind "json": what json.dump wrote, kept as the document), or   *)
(* holds a text (kind "text": the symbols json.load reads), or holds bytes  *)
(* that are not UTF-8 (kind "bytes").                                       *)

JsonFile(d) == [kind |-> "json", doc |-> d]
TextFile(text) == [kind |-> "text", text |-> text]
AbsentFile == [kind |-> "absent"]
BytesFile == [kind |-> "bytes"]

\* path.open("r", encoding="utf-8") followed by json.load raises
\* UnicodeDecodeError, which "except json.JSONDecodeError" does not catch
LoadRaises(path) == files[path].kind = "bytes"

load_json(path, default) ==
    CASE files[path].kind = "json" -> files[path].doc
      [] files[path].kind = "text" ->
            IF Decodes(files[path].text) THEN Decoded(files[path].text)
            ELSE default
      [] OTHER -> default

SavedFiles(path, data) == [files EXCEPT ![path] = JsonFile(data)]

-----------------------------------------------------------------------------
(* The session table *)

\* an entry is kept one second too long
ExpiredLate(data, t) == ~(data.expires >= t)

\* line 339 keeps an entry when data.get("expires", 0) > now
Expired(data, t) == ~(data.expires > t)

\* nothing is pruned
clean_sessions_keep(sessions, t) == sessions

clean_sessions(sessions, t) ==
    [token \in {k \in DOMAIN sessions : ~Expired(sessions[k], t)} |-> sessions[token]]

NewSession(username, role, t) ==
    [user |-> username, role |-> role, expires |-> t + SESSION_TTL]

\* The cookies dict of get_session_user: a later part overwrites an earlier one.
RECURSIVE CookieDict(_, _)
CookieDict(parts, cookies) ==
    IF parts = <<>> THEN cookies
    ELSE LET part == Head(parts)
             i == IndexOf(part, "=")
         IN  IF i # 0
             THEN CookieDict(Tail(parts),
                             DictSet(cookies,
                                     Strip(SubSeq(part, 1, i - 1)),
                                     Strip(SubSeq(part, i + 1, Len(part)))))
             ELSE CookieDict(Tail(parts), cookies)

\* cookies.get(cookie_name) of get_session_user; None when the header is None
\* or empty, the name is not a key, or its value is empty.
SessionCookieToken(cookie_header, cookie_name) ==
    IF cookie_header = None \/ cookie_header[1] = <<>> THEN None
    ELSE LET cookies == CookieDict(Split(cookie_header[1], ";"), EmptyDict) IN
         IF cookie_name \in DOMAIN cookies /\ cookies[cookie_name] # <<>>
         THEN Some(cookies[cookie_name])
         ELSE None

\* the role filter is ignored
SessionLookupAnyRole(sessions, token, role) ==
    IF token \notin DOMAIN sessions THEN NoneUser ELSE sessions[token].user

\* Lines 372-377 of get_session_user, on the cleaned table.
SessionLookup(sessions, token, role) ==
    IF token \notin DOMAIN sessions THEN NoneUser
    ELSE IF role # NoRole /\ sessions[token].role # role THEN NoneUser
    ELSE sessions[token].user

\* get_cookie_token: the first part that starts with "<cookie_name>=".
RECURSIVE FirstCookiePart(_, _)
FirstCookiePart(parts, cookie_name) ==
    IF parts = <<>> THEN None
    ELSE IF StartsWith(Strip(Head(parts)), cookie_name \o <<"=">>)
         THEN Some(SubSeq(Strip(Head(parts)), Len(cookie_name) + 2, Len(Strip(Head(parts)))))
         ELSE FirstCookiePart(Tail(parts), cookie_name)

get_cookie_token(cookie_header, cookie_name) ==
    IF cookie_header = None \/ cookie_header[1] = <<>> THEN None
    ELSE FirstCookiePart(Split(cookie_header[1], ";"), cookie_name)

-----------------------------------------------------------------------------
(* The cookie headers requests carry *)

\* One cookie per part: the admin cookie with each token, the user cookie, an
\* admin cookie with an empty value, and a part with no "=".
CookieParts ==
    {ADMIN_SESSION_COOKIE \o <<"=">> \o t : t \in Tokens}
    \cup {USER_SESSION_COOKIE \o <<"=", "t1">>,
          ADMIN_SESSION_COOKIE \o <<"=">>,
          ADMIN_SESSION_COOKIE}

\* A browser joins the cookies of a request with "; ".
RECURSIVE Join(_)
Join(parts) ==
    IF Len(parts) = 1 THEN parts[1] ELSE parts[1] \o <<";", " ">> \o Join(Tail(parts))

PartSeqs == UNION {[1..n -> CookieParts] : n \in 1..MaxParts}

CookieHeaders == {None, Some(<<>>)} \cup {Some(Join(ps)) : ps \in PartSeqs}

-----------------------------------------------------------------------------
(* The documents of the repositories.  A dict is a function on its keys; a   *)
(* JSON true or false is the string "true" or "false", so that a value that  *)
(* is not a bool ("1", "0") can stand in the same field.                     *)

EVENTS_PATH == "events"
VIDEOS_PATH == "videos"
APPLICATIONS_PATH == "applications"
SUBMISSIONS_PATH == "submissions"
SETTINGS_PATH == "settings"
UPLOAD_DIR == "uploads"

\* line 40, in bytes
MAX_UPLOAD_BYTES == 50 * 1024 * 1024
ALLOWED_VIDEO_EXT == {".mp4", ".webm", ".ogg", ".mov"}
ALLOWED_IMAGE_EXT == {".jpg", ".jpeg", ".png", ".webp"}

\* http.HTTPStatus
SEE_OTHER == 303
FORBIDDEN == 403
NOT_FOUND == 404

\* the empty file name ""
NoFile == <<>>

Get(d, k, default) == IF k \in DOMAIN d THEN d[k] ELSE default

JTrue == "true"
JFalse == "false"
IsBool(v) == v \in {JTrue, JFalse}
Truthy(v) == v \in {JTrue, "1"}
\* the value is left as it is
PyBoolKeep(v) == v
PyBool(v) == IF Truthy(v) THEN JTrue ELSE JFalse

\* str.strip on the field values of the model: "" and " " are the blank ones
Stripped(x) == IF x = " " THEN "" ELSE x

\* str.lower on the names and addresses of the model
Lower(x) ==
    CASE x = "Ana" -> "ana"
      [] x = "ANA@example.com" -> "ana@example.com"
      [] OTHER -> x

DEFAULT_EVENTS ==
    << [id |-> <<"evt", "1">>, date |-> "16-19 ABR 2026", location |-> "Colonia, Alemania",
        title |-> "Calisthenics Cup 2026", description |-> "FIBO Fitness Convention.",
        tag |-> "Europa"],
       [id |-> <<"evt", "2">>, date |-> "MAR/ABR 2026", location |-> "Malaga, Espana",
        title |-> "Copa Malaga", description |-> "Fecha prevista entre marzo y abril.",
        tag |-> "Nacional"],
       [id |-> <<"evt", "3">>, date |-> "14-15 MAR 2026", location |-> "O Porto, Portugal",
        title |-> "Endurance Battles", description |-> "Eagle Calisthenics.",
        tag |-> "Europa"] >>

\* The days of DEFAULT_TRAINING_PLAN, each text shortened to week and day.
DefaultDays(w) == [d \in 1..7 |-> <<"default", w, d>>]

DEFAULT_TRAINING_PLAN ==
    [title |-> "Plan 4 semanas - primera dominada",
     weeks |-> << [title |-> "Semana 01 - Base y tecnica", days |-> DefaultDays(1)],
                  [title |-> "Semana 02 - Fuerza inicial", days |-> DefaultDays(2)],
                  [title |-> "Semana 03 - Control y potencia", days |-> DefaultDays(3)],
                  [title |-> "Semana 04 - Primer intento", days |-> DefaultDays(4)] >>]

copy_default_plan == DEFAULT_TRAINING_PLAN

\* A value that is not a dict (None, when the key is missing).
NotADict == [notdict |-> "null"]
IsDict(v) == "notdict" \notin DOMAIN v
EmptyText == <<>>

\* The element of a set of one element: Only({F(x) : x \in {e}}) is F(e), with
\* e worked out once.
Only(S) == CHOOSE x \in S : TRUE

\* A day that is no str but a number n is <<"int", n>>.
IsStr(day) == ~(Len(day) = 2 /\ day[1] = "int")

\* str(day).strip(): a day is a text; an empty or blank one strips to the empty
\* text, a number becomes its numeral.
DayText(day) ==
    IF day = <<" ">> THEN EmptyText
    ELSE IF IsStr(day) THEN day
    ELSE <<NumeralOf(day[2])>>

\* line 291: [str(day).strip() for day in days if str(day).strip()]
CleanDays(days) ==
    LET NotBlank(day) == DayText(day) # EmptyText
    IN  Only({[i \in 1..Len(kept) |-> DayText(kept[i])] : kept \in {SelectSeq(days, NotBlank)}})

\* lines 292-299: the week of the title and the stripped days given
WeekOf(title, cleaned, default_week) ==
    [title |-> IF title # "" THEN title ELSE default_week.title,
     days |-> IF Len(cleaned) < 7
              THEN cleaned \o SubSeq(default_week.days, Len(cleaned) + 1, 7)
              ELSE SubSeq(cleaned, 1, 7)]

\* lines 285-300: one week of normalize_plan; a value under "days" is a list
NormalizeWeek(weeks, index) ==
    Only({WeekOf(Get(source_week, "title", ""),
                 CleanDays(Get(source_week, "days", <<>>)),
                 copy_default_plan.weeks[index]) :
             source_week \in {IF index <= Len(weeks) /\ IsDict(weeks[index])
                              THEN weeks[index] ELSE EmptyDict}})

\* lines 273-301; a value under "weeks" is a list
normalize_plan(plan) ==
    IF ~IsDict(plan) THEN copy_default_plan
    ELSE Only({[title |-> IF title # "" THEN title ELSE copy_default_plan.title,
                weeks |-> <<NormalizeWeek(weeks, 1), NormalizeWeek(weeks, 2),
                            NormalizeWeek(weeks, 3), NormalizeWeek(weeks, 4)>>] :
                  title \in {Get(plan, "title", "")}, weeks \in {Get(plan, "weeks", <<>>)}})

\* lines 307-322: what ensure_application_fields makes of one application.
\* A missing approved becomes False and any other value its bool(); a missing
\* goal or concerns becomes ""; the plan becomes its normalized form.
EnsureApp(app) ==
    [k \in DOMAIN app \cup {"approved", "goal", "concerns", "plan"} |->
        CASE k = "approved" -> IF IsBool(Get(app, "approved", JFalse))
                               THEN Get(app, "approved", JFalse)
                               ELSE PyBool(Get(app, "approved", JFalse))
          [] k = "goal" -> Get(app, "goal", "")
          [] k = "concerns" -> Get(app, "concerns", "")
          [] k = "plan" -> normalize_plan(Get(app, "plan", NotADict))
          [] OTHER -> app[k]]

\* the branches of lines 307-322 that set changed
AppChanged(app) ==
    \/ "approved" \notin DOMAIN app
    \/ ~IsBool(Get(app, "approved", JFalse))
    \/ "goal" \notin DOMAIN app
    \/ "concerns" \notin DOMAIN app
    \/ Get(app, "plan", NotADict) # normalize_plan(Get(app, "plan", NotADict))

EnsuredApps(applications) == [i \in 1..Len(applications) |-> EnsureApp(applications[i])]
EnsureChanged(applications) == \E i \in 1..Len(applications) : AppChanged(applications[i])

\* [x for x in items if x.get("id") != id]
Without(items, id) ==
    LET Other(x) == Get(x, "id", None) # id
    IN  SelectSeq(items, Other)

\* lines 1807-1811: the first application with this id gets approved = True
FirstWithId(items, id) ==
    IF \E i \in 1..Len(items) : Get(items[i], "id", None) = id
    THEN CHOOSE i \in 1..Len(items) :
             /\ Get(items[i], "id", None) = id
             /\ \A j \in 1..(i - 1) : Get(items[j], "id", None) # id
    ELSE 0

\* no application gets approved
NotApproved(items, id) == items

Approved(items, id) ==
    [i \in 1..Len(items) |->
        IF i = FirstWithId(items, id) THEN DictSet(items[i], "approved", JTrue) ELSE items[i]]

\* hashlib.pbkdf2_hmac("sha256", password, salt, 120_000): one value per
\* (password, salt), the function taken as free of collisions
pbkdf2_hmac(password, salt) == <<"pbkdf2", password, salt>>

\* base64.b64encode / b64decode: the text of some bytes is another value than
\* the bytes; a text that is no base64 (wrong padding) makes b64decode raise
b64encode(bytes) == <<"b64", bytes>>
IsBase64(text) == text[1] = "b64"
b64decode(text) == text[2]

\* any two digests are taken for equal
compare_always(a, b) == TRUE
\* secrets.compare_digest
compare_digest(a, b) == a = b

\* lines 198-202, salt given or drawn by secrets.token_bytes(16)
hash_password(password, salt) ==
    [salt |-> b64encode(salt), hash |-> b64encode(pbkdf2_hmac(password, salt))]

\* lines 205-212
verify_password(password, salt_b64, hash_b64) ==
    IF ~IsBase64(salt_b64) \/ ~IsBase64(hash_b64) THEN FALSE
    ELSE compare_digest(pbkdf2_hmac(password, b64decode(salt_b64)), b64decode(hash_b64))

\* lines 474-479: the place of the first application of that username, 0 for None
find_application(applications, username) ==
    LET Named(i) == Lower(Stripped(Get(applications[i], "username", ""))) = Lower(Stripped(username))
    IN  IF \E i \in 1..Len(applications) : Named(i)
        THEN CHOOSE i \in 1..Len(applications) : Named(i) /\ \A j \in 1..(i - 1) : ~Named(j)
        ELSE 0

\* lines 1713-1720: the lines of a textarea become the days of the week; raw is
\* the text with "\n" between its lines
UpdatedDays(days, raw) ==
    LET lines == CleanDays(Split(raw, "\n")) IN
    IF raw = <<>> THEN days
    ELSE IF Len(lines) < 7 THEN lines \o SubSeq(days, Len(lines) + 1, 7)
    ELSE SubSeq(lines, 1, 7)

\* the days that are missing come from the default plan
UpdatedDaysFromDefault(plan, index, raw) ==
    UpdatedDays(copy_default_plan.weeks[index].days, raw)

\* line 1718: the days that are missing come from the plan as it is
UpdatedDaysOf(plan, index, raw) == UpdatedDays(plan.weeks[index].days, raw)

\* lines 1708-1721
UpdatedPlan(stored, form) ==
    LET plan == normalize_plan(stored)
        plan_title == Stripped(form.plan_title)
        Week(index) == [title |-> plan.weeks[index].title,
                        days |-> UpdatedDaysOf(plan, index, form.weeks[index])]
    IN  [title |-> IF plan_title # "" THEN plan_title ELSE plan.title,
         weeks |-> <<Week(1), Week(2), Week(3), Week(4)>>]

\* lines 1474-1487
NewApplication(form, id, salt, t) ==
    [id |-> id, username |-> form.username, email |-> form.email, skill |-> form.skill,
     level |-> form.level, goal |-> form.goal, concerns |-> form.concerns,
     salt |-> hash_password(form.password, salt).salt,
     hash |-> hash_password(form.password, salt).hash,
     approved |-> JFalse, plan |-> copy_default_plan, created_at |-> t]

\* no application is taken for a duplicate
NoDuplicate(applications, username, email) == ""

\* lines 1465-1471: "" when no stored application has the username or the email
DuplicateOf(applications, username, email) ==
    IF \E i \in 1..Len(applications) :
           \/ Lower(Get(applications[i], "username", "")) = Lower(username)
           \/ Lower(Get(applications[i], "email", "")) = Lower(email)
    THEN LET i == CHOOSE i \in 1..Len(applications) :
                    /\ \/ Lower(Get(applications[i], "username", "")) = Lower(username)
                       \/ Lower(Get(applications[i], "email", "")) = Lower(email)
                    /\ \A j \in 1..(i - 1) :
                           /\ Lower(Get(applications[j], "username", "")) # Lower(username)
                           /\ Lower(Get(applications[j], "email", "")) # Lower(email)
         IN  IF Lower(Get(applications[i], "username", "")) = Lower(username)
             THEN "Usuario ya registrado" ELSE "Email ya registrado"
    ELSE ""

\* lines 1268-1276 of notify_application: "" when the mails are to be sent
NotifyRefusal(smtp_settings) ==
    IF ~Get(smtp_settings, "enabled", FALSE) THEN "smtp_disabled"
    ELSE IF \/ Get(smtp_settings, "host", "") = ""
            \/ Get(smtp_settings, "username", "") = ""
            \/ Get(smtp_settings, "password", "") = "" THEN "smtp_incomplete"
    ELSE IF /\ Get(smtp_settings, "admin_email", "") = ""
            /\ Get(smtp_settings, "username", "") = "" THEN "smtp_incomplete"
    ELSE ""

\* lines 253-265: the settings ensure_data_files writes
DefaultSettings ==
    [admin |-> [username |-> "admin", salt |-> hash_password("admin", <<"salt", "0">>).salt,
                hash |-> hash_password("admin", <<"salt", "0">>).hash],
     smtp |-> [enabled |-> FALSE, host |-> "", port |-> 587, username |-> "",
               password |-> "", from_name |-> "Aura Calistenia", admin_email |-> "",
               use_tls |-> TRUE]]

\* lines 1681-1693: the settings after handle_settings_update filled in a server
MailSettings ==
    [DefaultSettings EXCEPT !.smtp =
        [enabled |-> TRUE, host |-> "smtp.example.com", port |-> 587,
         username |-> "aura@example.com", password |-> "secret",
         from_name |-> "Aura Calistenia", admin_email |-> "", use_tls |-> TRUE]]

-----------------------------------------------------------------------------
(* The sequential session table: every call runs alone *)

\* lines 232-266: the files ensure_data_files leaves at the first start
DocsAtStart ==
    [p \in {SESSIONS_PATH, EVENTS_PATH, APPLICATIONS_PATH, SETTINGS_PATH} |->
        CASE p = SESSIONS_PATH -> JsonFile(EmptyDict)
          [] p = EVENTS_PATH -> JsonFile(DEFAULT_EVENTS)
          [] p = APPLICATIONS_PATH -> JsonFile(<<>>)
          [] p = SETTINGS_PATH -> JsonFile(DefaultSettings)]

\* secrets.token_urlsafe(32): a token never returned before.  Tokens are opaque,
\* so the next unused one stands for any fresh one.
token_urlsafe == IF <<"t1">> \notin issued THEN <<"t1">> ELSE <<"t2">>

\* No call is waiting to return.
Idle == [op |-> "idle"]

\* The calls of get_session_user: (cookie_name, role).
ResolveCalls ==
    {<<ADMIN_SESSION_COOKIE, "admin">>, <<USER_SESSION_COOKIE, "user">>,
     <<ADMIN_SESSION_COOKIE, NoRole>>}

\* No request is being served.
ThreadsAtStart ==
    /\ DATA_LOCK = FALSE
    /\ pc = [th \in Threads |-> "idle"]
    /\ inFile = [th \in Threads |-> FALSE]
    /\ holds = [th \in Threads |-> 0]
    /\ local = [th \in Threads |-> [call |-> "none"]]
    /\ served = [th \in Threads |-> 0]

Init ==
    /\ files = DocsAtStart
    /\ now = 0
    /\ ticks = 0
    /\ issued = {}
    /\ created = EmptyDict
    /\ deleted = {}
    /\ lastOp = Idle
    /\ ThreadsAtStart

Tick ==
    /\ lastOp = Idle
    /\ ticks < MaxTicks
    /\ \E d \in TickSteps : now' = now + d
    /\ ticks' = ticks + 1
    /\ UNCHANGED <<files, issued, created, deleted, lastOp>>
    /\ UNCHANGED threadVars

\* create_session(username, role)
CreateSession(username, role) ==
    /\ lastOp = Idle
    /\ Tokens \ issued # {}
    /\ LET token == token_urlsafe
           sessions == clean_sessions(load_json(SESSIONS_PATH, EmptyDict), now)
           table == DictSet(sessions, token, NewSession(username, role, now))
       IN  /\ files' = SavedFiles(SESSIONS_PATH, table)
           /\ issued' = issued \cup {token}
           /\ created' = DictSet(created, token,
                                 [user |-> username, role |-> role, t0 |-> now])
           /\ lastOp' = [op |-> "create", token |-> token,
                         before |-> files[SESSIONS_PATH]]
    /\ UNCHANGED <<now, ticks, deleted>>
    /\ UNCHANGED threadVars

\* delete_session(token)
DeleteSession(token) ==
    /\ lastOp = Idle
    /\ LET sessions == load_json(SESSIONS_PATH, EmptyDict) IN
       files' = IF token \in DOMAIN sessions
                THEN SavedFiles(SESSIONS_PATH, DictDel(sessions, token))
                ELSE files
    /\ deleted' = deleted \cup ({token} \cap issued)
    /\ lastOp' = [op |-> "delete", token |-> token, before |-> files[SESSIONS_PATH]]
    /\ UNCHANGED <<now, ticks, issued, created>>
    /\ UNCHANGED threadVars

\* get_session_user(cookie_header, cookie_name, role)
GetSessionUser(cookie_header, cookie_name, role) ==
    /\ lastOp = Idle
    /\ LET token == SessionCookieToken(cookie_header, cookie_name)
           sessions == clean_sessions(load_json(SESSIONS_PATH, EmptyDict), now)
       IN  /\ files' = IF token = None THEN files ELSE SavedFiles(SESSIONS_PATH, sessions)
           /\ lastOp' = [op |-> "resolve", header |-> cookie_header, name |-> cookie_name,
                         role |-> role, before |-> files[SESSIONS_PATH],
                         res |-> IF token = None THEN NoneUser
                                 ELSE SessionLookup(sessions, token[1], role)]
    /\ UNCHANGED <<now, ticks, issued, created, deleted>>
    /\ UNCHANGED threadVars

\* The call returns and its caller takes the result.
Return ==
    /\ lastOp # Idle
    /\ lastOp' = Idle
    /\ UNCHANGED <<files, now, ticks, issued, created, deleted>>
    /\ UNCHANGED threadVars

Next ==
    \/ Tick
    \/ \E o \in SessionOwners : CreateSession(o[1], o[2])
    \/ \E t \in Tokens : DeleteSession(t)
    \/ \E h \in CookieHeaders, c \in ResolveCalls : GetSessionUser(h, c[1], c[2])
    \/ Return

Spec == Init /\ [][Next]_vars

-----------------------------------------------------------------------------
(* The vocabulary of the session claims *)

SessionTable == files[SESSIONS_PATH].doc

\* The values the header gives the cookie `name`, in the order of the header.
RECURSIVE ValuesOf(_, _)
ValuesOf(parts, name) ==
    IF parts = <<>> THEN <<>>
    ELSE LET i == IndexOf(Head(parts), "=") IN
         IF i # 0 /\ Strip(SubSeq(Head(parts), 1, i - 1)) = name
         THEN <<Strip(SubSeq(Head(parts), i + 1, Len(Head(parts))))>>
                  \o ValuesOf(Tail(parts), name)
         ELSE ValuesOf(Tail(parts), name)

CookieValues(header, name) ==
    IF header = None THEN <<>> ELSE ValuesOf(Split(header[1], ";"), name)

\* The header carries the cookie once, with this token as its value.
Carries(header, name, token) == CookieValues(header, name) = <<token>>

Resolved == lastOp.op = "resolve"

Unexpired(sessions, t) == {k \in DOMAIN sessions : sessions[k].expires > t}

\* C1: a session created at t0 and not deleted resolves to its user, under no
\* role filter or the filter of its role, at every time before t0 + 12h, and
\* resolves to none from t0 + 12h on.
C1_ResolvesUntilExpiry ==
    Resolved =>
        \A token \in DOMAIN created :
            Carries(lastOp.header, lastOp.name, token) =>
                /\ ( /\ now < created[token].t0 + 12 * 60 * 60
                     /\ token \notin deleted
                     /\ lastOp.role \in {NoRole, created[token].role} )
                   => lastOp.res = created[token].user
                /\ now >= created[token].t0 + 12 * 60 * 60 => lastOp.res = NoneUser

\* The last second of a session: it still resolves.
C1_Witness ==
    /\ Resolved
    /\ \E token \in DOMAIN created :
        /\ Carries(lastOp.header, lastOp.name, token)
        /\ now = created[token].t0 + 12 * 60 * 60 - 1
        /\ lastOp.res = created[token].user

\* C2: once delete was called with a token, resolve returns none for it; a
\* delete of a token that is not in the table leaves the stored table as it was.
C2_DeleteThenNone ==
    /\ Resolved =>
          \A token \in deleted :
              Carries(lastOp.header, lastOp.name, token) => lastOp.res = NoneUser
    /\ (lastOp.op = "delete" /\ lastOp.token \notin DOMAIN lastOp.before.doc)
          => files[SESSIONS_PATH] = lastOp.before

\* A second delete of a session that has not expired.
C2_Witness ==
    /\ lastOp.op = "delete"
    /\ lastOp.token \in DOMAIN created
    /\ now < created[lastOp.token].t0 + SESSION_TTL
    /\ lastOp.token \notin DOMAIN lastOp.before.doc
    /\ files[SESSIONS_PATH] = lastOp.before

\* C3: resolve returns a user only for a token of the header that is in the
\* table, unexpired and, under a role filter, of that role.
C3_ResolveOnlyValid ==
    (Resolved /\ lastOp.res # NoneUser) =>
        \E i \in 1..Len(CookieValues(lastOp.header, lastOp.name)) :
            LET token == CookieValues(lastOp.header, lastOp.name)[i]
                table == lastOp.before.doc
            IN  /\ token \in DOMAIN table
                /\ table[token].expires > now
                /\ lastOp.role # NoRole => table[token].role = lastOp.role
                /\ lastOp.res = table[token].user

\* A user session resolved under the user filter while an admin session exists.
C3_Witness ==
    /\ Resolved
    /\ lastOp.role = "user"
    /\ lastOp.res = "ana"
    /\ \E k \in DOMAIN lastOp.before.doc : lastOp.before.doc[k].role = "admin"

\* C4: after create, delete, or a resolve that reads the table, the stored
\* table holds no entry with expires <= now.
C4_NoExpiredAfterRead ==
    ( \/ lastOp.op \in {"create", "delete"}
      \/ Resolved /\ CookieValues(lastOp.header, lastOp.name) # <<>> )
        => Unexpired(SessionTable, now) = DOMAIN SessionTable

\* C5 as stated: every resolve leaves the pruned table stored, whatever the header.
C5_EveryResolvePrunes ==
    Resolved => DOMAIN SessionTable = Unexpired(lastOp.before.doc, now)

\* The value get_session_user looks up: the last one the header gives the cookie.
UsedValue(header, name) ==
    LET vs == CookieValues(header, name) IN
    IF vs = <<>> THEN <<>> ELSE vs[Len(vs)]

\* C5, amended: a resolve whose header gives the cookie a non-empty value (the
\* last one, when the name repeats) stores the pruned table; any other resolve
\* returns none and leaves the stored table as it was.
C5_ResolveWithCookiePrunes ==
    Resolved =>
        IF UsedValue(lastOp.header, lastOp.name) # <<>>
        THEN /\ DOMAIN SessionTable = Unexpired(lastOp.before.doc, now)
             /\ \A k \in DOMAIN SessionTable : SessionTable[k] = lastOp.before.doc[k]
        ELSE /\ files[SESSIONS_PATH] = lastOp.before
             /\ lastOp.res = NoneUser

\* A resolve that removed an expired entry and kept an unexpired one.
C5_Witness ==
    /\ Resolved
    /\ UsedValue(lastOp.header, lastOp.name) # <<>>
    /\ DOMAIN SessionTable # DOMAIN lastOp.before.doc
    /\ SessionTable # EmptyDict

\* What resolve returns when it looks up `value` in the table stored before it.
ResultFor(value, table, role, t) ==
    IF value = <<>> \/ value \notin DOMAIN table THEN NoneUser
    ELSE IF ~(table[value].expires > t) THEN NoneUser
    ELSE IF role # NoRole /\ table[value].role # role THEN NoneUser
    ELSE table[value].user

\* C6: when the header names the cookie more than once, resolve uses the value
\* of the first occurrence.
C6_FirstOccurrenceWins ==
    (Resolved /\ Len(CookieValues(lastOp.header, lastOp.name)) > 1) =>
        lastOp.res = ResultFor(CookieValues(lastOp.header, lastOp.name)[1],
                               lastOp.before.doc, lastOp.role, now)

-----------------------------------------------------------------------------
(* Threads.  A request runs in its own thread; each load_json and save_json *)
(* it makes is one passage through "with DATA_LOCK", and between two        *)
(* passages the other threads run.                                          *)

MaxCalls == 2

\* The statements at which a thread enters load_json or save_json.
SessionLoads == {"create_load", "resolve_load", "delete_load"}
SessionSaves == {"create_save", "resolve_save", "delete_save"}
EventLoads == {"events_load"}
EventSaves == {"events_save"}
ApplicationLoads == {"apps_load"}
ApplicationSaves == {"apps_ensure", "approve_save", "appdel_save", "apply_save"}
SettingsLoads == {"apply_settings"}
\* load_json and save_json called for themselves, see SpecFiles
JsonLoads == {"load_read"}
JsonSaves == {"save_open"}
FileOps ==
    SessionLoads \cup SessionSaves \cup EventLoads \cup EventSaves
        \cup ApplicationLoads \cup ApplicationSaves \cup SettingsLoads
        \cup JsonLoads \cup JsonSaves

\* The file a thread at the statement reads or writes.
PathOf(label) ==
    CASE label \in SessionLoads \cup SessionSaves -> SESSIONS_PATH
      [] label \in EventLoads \cup EventSaves \cup JsonLoads \cup JsonSaves -> EVENTS_PATH
      [] label \in ApplicationLoads \cup ApplicationSaves -> APPLICATIONS_PATH
      [] label \in SettingsLoads -> SETTINGS_PATH
      [] OTHER -> "none"

\* the lock is taken without looking at it
LockFreeAlways == TRUE

\* DATA_LOCK.acquire() goes on only when no thread holds the lock
LockFree == ~DATA_LOCK

Goto(th, label) == pc' = [pc EXCEPT ![th] = label]
SetLocal(th, r) == local' = [local EXCEPT ![th] = r]
Waiting(th) == pc[th] \in FileOps /\ ~inFile[th]

\* "with DATA_LOCK:" is entered
AcquireLock(th) ==
    /\ Waiting(th)
    /\ LockFree
    /\ DATA_LOCK' = TRUE
    /\ inFile' = [inFile EXCEPT ![th] = TRUE]
    /\ holds' = [holds EXCEPT ![th] = @ + 1]
    /\ UNCHANGED <<files, now, ticks, issued, created, deleted, lastOp, pc, local, served>>

\* the with block is left and the lock stays taken
LeaveLocked(th) ==
    /\ DATA_LOCK' = DATA_LOCK
    /\ inFile' = [inFile EXCEPT ![th] = FALSE]
    /\ holds' = holds

\* the with block is left: DATA_LOCK.release()
ReleaseLock(th) ==
    /\ DATA_LOCK' = FALSE
    /\ inFile' = [inFile EXCEPT ![th] = FALSE]
    /\ holds' = [holds EXCEPT ![th] = @ - 1]

RECURSIVE Total(_, _)
Total(f, S) == IF S = {} THEN 0 ELSE LET x == CHOOSE x \in S : TRUE IN f[x] + Total(f, S \ {x})

\* A thread takes a request; MaxCalls requests arrive in all.
Begin(th) ==
    /\ pc[th] = "idle"
    /\ Total(served, Threads) < MaxCalls
    /\ served' = [served EXCEPT ![th] = @ + 1]

-----------------------------------------------------------------------------
(* create_session, delete_session and get_session_user, statement by statement *)

CreatesInFlight == {t \in Threads : pc[t] \in {"create_load", "create_clean"}}

\* the new table holds the new session alone
OnlySession(sessions, token, data) == DictSet(EmptyDict, token, data)

\* line 346: sessions[token] = {...}
WithSession(sessions, token, data) == DictSet(sessions, token, data)

StartCreate(th, username, role) ==
    /\ Begin(th)
    /\ Cardinality(issued) + Cardinality(CreatesInFlight) < Cardinality(Tokens)
    /\ Goto(th, "create_load")
    /\ SetLocal(th, [call |-> "create", user |-> username, role |-> role])
    /\ UNCHANGED <<files, now, ticks, issued, created, deleted, lastOp, DATA_LOCK, inFile, holds>>

\* line 343
CreateLoad(th) ==
    /\ pc[th] = "create_load" /\ inFile[th]
    /\ SetLocal(th, [loaded |-> load_json(SESSIONS_PATH, EmptyDict)] @@ local[th])
    /\ ReleaseLock(th)
    /\ Goto(th, "create_clean")
    /\ UNCHANGED <<files, now, ticks, issued, created, deleted, lastOp, served>>

\* lines 344-346
CreateClean(th) ==
    /\ pc[th] = "create_clean"
    /\ LET token == token_urlsafe
           data == NewSession(local[th].user, local[th].role, now)
       IN  /\ SetLocal(th, [token |-> token, t0 |-> now,
                            table |-> WithSession(clean_sessions(local[th].loaded, now),
                                                  token, data)] @@ local[th])
           /\ issued' = issued \cup {token}
    /\ Goto(th, "create_save")
    /\ UNCHANGED <<files, now, ticks, created, deleted, lastOp, DATA_LOCK, inFile, holds, served>>

\* lines 347-348
CreateSave(th) ==
    /\ pc[th] = "create_save" /\ inFile[th]
    /\ files' = SavedFiles(SESSIONS_PATH, local[th].table)
    /\ created' = DictSet(created, local[th].token,
                          [user |-> local[th].user, role |-> local[th].role,
                           t0 |-> local[th].t0])
    /\ ReleaseLock(th)
    /\ Goto(th, "idle")
    /\ SetLocal(th, [call |-> "create", ret |-> local[th].token])
    /\ UNCHANGED <<now, ticks, issued, deleted, lastOp, served>>

StartDelete(th, token) ==
    /\ Begin(th)
    /\ Goto(th, "delete_load")
    /\ SetLocal(th, [call |-> "delete", token |-> token])
    /\ UNCHANGED <<files, now, ticks, issued, created, deleted, lastOp, DATA_LOCK, inFile, holds>>

\* lines 352-354
DeleteLoad(th) ==
    /\ pc[th] = "delete_load" /\ inFile[th]
    /\ LET sessions == load_json(SESSIONS_PATH, EmptyDict) IN
       IF local[th].token \in DOMAIN sessions
       THEN /\ SetLocal(th, [loaded |-> sessions,
                             table |-> DictDel(sessions, local[th].token)] @@ local[th])
            /\ Goto(th, "delete_save")
       ELSE /\ SetLocal(th, [call |-> "delete", ret |-> None])
            /\ Goto(th, "idle")
    /\ deleted' = deleted \cup ({local[th].token} \cap issued)
    /\ ReleaseLock(th)
    /\ UNCHANGED <<files, now, ticks, issued, created, lastOp, served>>

\* line 355
DeleteSave(th) ==
    /\ pc[th] = "delete_save" /\ inFile[th]
    /\ files' = SavedFiles(SESSIONS_PATH, local[th].table)
    /\ ReleaseLock(th)
    /\ Goto(th, "idle")
    /\ SetLocal(th, [call |-> "delete", ret |-> None])
    /\ UNCHANGED <<now, ticks, issued, created, deleted, lastOp, served>>

\* lines 359-368
StartResolve(th, cookie_header, cookie_name, role) ==
    /\ Begin(th)
    /\ LET token == SessionCookieToken(cookie_header, cookie_name) IN
       IF token = None
       THEN /\ Goto(th, "idle")
            /\ SetLocal(th, [call |-> "resolve", ret |-> NoneUser])
       ELSE /\ Goto(th, "resolve_load")
            /\ SetLocal(th, [call |-> "resolve", token |-> token[1], role |-> role])
    /\ UNCHANGED <<files, now, ticks, issued, created, deleted, lastOp, DATA_LOCK, inFile, holds>>

\* line 369
ResolveLoad(th) ==
    /\ pc[th] = "resolve_load" /\ inFile[th]
    /\ SetLocal(th, [loaded |-> load_json(SESSIONS_PATH, EmptyDict)] @@ local[th])
    /\ ReleaseLock(th)
    /\ Goto(th, "resolve_clean")
    /\ UNCHANGED <<files, now, ticks, issued, created, deleted, lastOp, served>>

\* line 370
ResolveClean(th) ==
    /\ pc[th] = "resolve_clean"
    /\ SetLocal(th, [table |-> clean_sessions(local[th].loaded, now)] @@ local[th])
    /\ Goto(th, "resolve_save")
    /\ UNCHANGED <<files, now, ticks, issued, created, deleted, lastOp,
                   DATA_LOCK, inFile, holds, served>>

\* lines 1403-1442 of do_POST: the admin routes after get_session_user
Dispatch(th, admin_user) ==
    IF admin_user \in {NoneUser, ""}
    THEN Goto(th, "idle") /\ SetLocal(th, [ret |-> "403"] @@ local[th])
    ELSE IF local[th].call = "event_add"
    THEN IF \E k \in DOMAIN local[th].form : Stripped(local[th].form[k]) = ""
         THEN Goto(th, "idle") /\ SetLocal(th, [ret |-> "error"] @@ local[th])
         ELSE Goto(th, "events_load") /\ UNCHANGED local
    ELSE Goto(th, "apps_load") /\ UNCHANGED local

\* lines 371-377; the caller goes on with the user returned
ResolveSave(th) ==
    /\ pc[th] = "resolve_save" /\ inFile[th]
    /\ files' = SavedFiles(SESSIONS_PATH, local[th].table)
    /\ ReleaseLock(th)
    /\ LET user == SessionLookup(local[th].table, local[th].token, local[th].role) IN
       IF local[th].call = "resolve"
       THEN Goto(th, "idle") /\ SetLocal(th, [call |-> "resolve", ret |-> user])
       ELSE Dispatch(th, user)
    /\ UNCHANGED <<now, ticks, issued, created, deleted, lastOp, served>>

\* The headers of the concurrent calls: no header, or the admin cookie with a token.
TokenHeaders == {None} \cup {Some(ADMIN_SESSION_COOKIE \o <<"=">> \o t) : t \in Tokens}

SessionStep(th) ==
    \/ \E o \in SessionOwners : StartCreate(th, o[1], o[2])
    \/ CreateLoad(th)
    \/ CreateClean(th)
    \/ CreateSave(th)
    \/ \E t \in Tokens : StartDelete(th, t)
    \/ DeleteLoad(th)
    \/ DeleteSave(th)
    \/ \E h \in TokenHeaders : StartResolve(th, h, ADMIN_SESSION_COOKIE, NoRole)
    \/ ResolveLoad(th)
    \/ ResolveClean(th)
    \/ ResolveSave(th)

NextSessions ==
    \/ Tick
    \/ \E th \in Threads : AcquireLock(th)
    \/ \E th \in Threads : SessionStep(th)

SpecSessions == Init /\ [][NextSessions]_vars

\* The thread is leaving save_json, having written its copy of the table.
Saving(th) == pc[th] \in SessionSaves /\ inFile[th] /\ pc'[th] # pc[th]

\* C10: a stored session leaves the stored table only when it has expired or
\* a delete naming its token writes the table.
C10_NeverDropped ==
    [][\A k \in DOMAIN SessionTable :
          k \notin DOMAIN SessionTable' =>
              \/ SessionTable[k].expires <= now
              \/ \E th \in Threads :
                    Saving(th) /\ local[th].call = "delete" /\ local[th].token = k]_vars

\* C10, amended: ... or the table is overwritten by a call whose copy of the
\* table, loaded earlier, does not hold the session.
C10_DroppedOnlyByStaleWrite ==
    [][\A k \in DOMAIN SessionTable :
          k \notin DOMAIN SessionTable' =>
              \/ SessionTable[k].expires <= now
              \/ \E th \in Threads :
                    Saving(th) /\ local[th].call = "delete" /\ local[th].token = k
              \/ \E th \in Threads :
                    Saving(th) /\ k \notin DOMAIN local[th].loaded]_vars

\* Two creates have returned and one of the two sessions, neither expired nor
\* deleted, is not in the stored table.
C10_Witness ==
    /\ \A th \in Threads : pc[th] = "idle" /\ local[th].call = "create"
    /\ \E k \in DOMAIN created :
          /\ k \notin DOMAIN SessionTable
          /\ k \notin deleted
          /\ now < created[k].t0 + SESSION_TTL

-----------------------------------------------------------------------------
(* The admin routes: handle_event_add, handle_application_approve and        *)
(* handle_application_delete, each behind the admin check of do_POST.        *)

\* The values secrets.token_hex returns.
HexIds == <<"a1", "a2", "a3", "a4", "a5", "a6">>

IdsIn(path) ==
    IF path \in DOMAIN files
    THEN {files[path].doc[i].id[2] : i \in 1..Len(files[path].doc)}
    ELSE {}

StoredIds ==
    IdsIn(EVENTS_PATH) \cup IdsIn(VIDEOS_PATH) \cup IdsIn(SUBMISSIONS_PATH)
        \cup {files[APPLICATIONS_PATH].doc[i].id : i \in 1..Len(files[APPLICATIONS_PATH].doc)}

InUse == StoredIds \cup {local[th].hex : th \in {t \in Threads : "hex" \in DOMAIN local[t]}}

\* secrets.token_hex(n): a value in use nowhere.  The values are opaque, so
\* the first unused one stands for any fresh one.
token_hex ==
    HexIds[CHOOSE i \in 1..Len(HexIds) :
               /\ HexIds[i] \notin InUse
               /\ \A j \in 1..(i - 1) : HexIds[j] \in InUse]

\* An application stored by an earlier version: no approved, goal, concerns or plan.
LegacyApp ==
    [id |-> "x", username |-> "leo", email |-> "leo@example.com", skill |-> "front lever",
     level |-> "", salt |-> hash_password("pw", <<"salt", "x">>).salt,
     hash |-> hash_password("pw", <<"salt", "x">>).hash, created_at |-> 0]

\* An application edited by hand: approved is "0" and the plan is partial.
EditedApp ==
    [id |-> "y", username |-> "mia", email |-> "mia@example.com", skill |-> "muscle up",
     level |-> "medio", goal |-> "primer muscle up", concerns |-> "",
     salt |-> hash_password("pw", <<"salt", "y">>).salt,
     hash |-> hash_password("pw", <<"salt", "y">>).hash, approved |-> "0",
     plan |-> [title |-> "",
               weeks |-> << [title |-> "Semana de Mia",
                             days |-> << <<"mia", 1>>, <<" ">>, <<"mia", 2>> >>],
                            NotADict >>],
     created_at |-> 0]

EventForms ==
    {[title |-> "Open Madrid", date |-> "1 MAY 2026", location |-> "Madrid",
      description |-> "Open", tag |-> "Nacional"],
     [title |-> "Open Madrid", date |-> "1 MAY 2026", location |-> "Madrid",
      description |-> "Open", tag |-> " "]}

AdminRequests ==
    {[call |-> "event_add", form |-> f] : f \in EventForms}
        \cup {[call |-> "approve", id |-> i] : i \in {"x", "zz"}}
        \cup {[call |-> "delete_app", id |-> i] : i \in {"y"}}

\* The Cookie headers of the admin requests.
AdminHeaders == {None, Some(ADMIN_SESSION_COOKIE \o <<"=">> \o <<"t1">>)}

\* The state after the admin has logged in at time 0.
InitAdmin ==
    /\ files = [DocsAtStart EXCEPT
                   ![SESSIONS_PATH] = JsonFile(DictSet(EmptyDict, <<"t1">>,
                                                       NewSession("admin", "admin", 0))),
                   ![APPLICATIONS_PATH] = JsonFile(<<LegacyApp, EditedApp>>)]
    /\ now = 0
    /\ ticks = 0
    /\ issued = {<<"t1">>}
    /\ created = DictSet(EmptyDict, <<"t1">>, [user |-> "admin", role |-> "admin", t0 |-> 0])
    /\ deleted = {}
    /\ lastOp = Idle
    /\ ThreadsAtStart

\* line 1403: get_session_user(self.headers.get("Cookie"), ADMIN_SESSION_COOKIE, "admin")
StartAdmin(th, cookie_header, request) ==
    /\ Begin(th)
    /\ LET token == SessionCookieToken(cookie_header, ADMIN_SESSION_COOKIE) IN
       IF token = None
       THEN /\ Goto(th, "idle")
            /\ SetLocal(th, [ret |-> "403"] @@ request)
       ELSE /\ Goto(th, "resolve_load")
            /\ SetLocal(th, [token |-> token[1], role |-> "admin"] @@ request)
    /\ UNCHANGED <<files, now, ticks, issued, created, deleted, lastOp, DATA_LOCK, inFile, holds>>

\* lines 1603-1611: the event of the form
NewEvent(form, hex) ==
    [id |-> <<"evt", hex>>, date |-> Stripped(form.date), location |-> Stripped(form.location),
     title |-> Stripped(form.title), description |-> Stripped(form.description),
     tag |-> Stripped(form.tag)]

\* the list is left as it was
NotAppended(items, item) == items

\* the new record goes in front of the list
Prepended(items, item) == <<item>> \o items

\* list.append
Appended(items, item) == Append(items, item)

\* lines 1602-1612
EventsLoad(th) ==
    /\ pc[th] = "events_load" /\ inFile[th]
    /\ LET events == load_json(EVENTS_PATH, <<>>)
           event == NewEvent(local[th].form, token_hex)
       IN  SetLocal(th, [loaded |-> events, hex |-> token_hex, event |-> event,
                         table |-> Appended(events, event)] @@ local[th])
    /\ ReleaseLock(th)
    /\ Goto(th, "events_save")
    /\ UNCHANGED <<files, now, ticks, issued, created, deleted, lastOp, served>>

\* lines 1613-1614
EventsSave(th) ==
    /\ pc[th] = "events_save" /\ inFile[th]
    /\ files' = SavedFiles(EVENTS_PATH, local[th].table)
    /\ ReleaseLock(th)
    /\ Goto(th, "idle")
    /\ SetLocal(th, [ret |-> "event_added"] @@ local[th])
    /\ UNCHANGED <<now, ticks, issued, created, deleted, lastOp, served>>

\* The caller of load_applications goes on with the list returned.
AfterApplications(th, applications) ==
    CASE local[th].call = "approve" ->
            IF FirstWithId(applications, local[th].id) # 0
            THEN /\ Goto(th, "approve_save")
                 /\ SetLocal(th, [loaded |-> applications,
                                  table |-> Approved(applications, local[th].id)] @@ local[th])
            ELSE /\ Goto(th, "idle")
                 /\ SetLocal(th, [loaded |-> applications, ret |-> "error"] @@ local[th])
      [] local[th].call = "delete_app" ->
            /\ Goto(th, "appdel_save")
            /\ SetLocal(th, [loaded |-> applications,
                             table |-> Without(applications, local[th].id)] @@ local[th])
      [] OTHER ->
            /\ Goto(th, "apply_check")
            /\ SetLocal(th, [loaded |-> applications] @@ local[th])

\* line 329: load_json(APPLICATIONS_PATH, []), and lines 305-322
ApplicationsLoad(th) ==
    /\ pc[th] = "apps_load" /\ inFile[th]
    /\ \E applications \in {EnsuredApps(load_json(APPLICATIONS_PATH, <<>>))} :
          IF EnsureChanged(load_json(APPLICATIONS_PATH, <<>>))
          THEN /\ Goto(th, "apps_ensure")
               /\ SetLocal(th, [loaded |-> applications] @@ local[th])
          ELSE AfterApplications(th, applications)
    /\ ReleaseLock(th)
    /\ UNCHANGED <<files, now, ticks, issued, created, deleted, lastOp, served>>

\* lines 323-325: save_json(APPLICATIONS_PATH, applications)
ApplicationsEnsure(th) ==
    /\ pc[th] = "apps_ensure" /\ inFile[th]
    /\ files' = SavedFiles(APPLICATIONS_PATH, local[th].loaded)
    /\ AfterApplications(th, local[th].loaded)
    /\ ReleaseLock(th)
    /\ UNCHANGED <<now, ticks, issued, created, deleted, lastOp, served>>

\* lines 1812-1814
ApproveSave(th) ==
    /\ pc[th] = "approve_save" /\ inFile[th]
    /\ files' = SavedFiles(APPLICATIONS_PATH, local[th].table)
    /\ ReleaseLock(th)
    /\ Goto(th, "idle")
    /\ SetLocal(th, [ret |-> "app_approved"] @@ local[th])
    /\ UNCHANGED <<now, ticks, issued, created, deleted, lastOp, served>>

\* lines 1823-1824
ApplicationDeleteSave(th) ==
    /\ pc[th] = "appdel_save" /\ inFile[th]
    /\ files' = SavedFiles(APPLICATIONS_PATH, local[th].table)
    /\ ReleaseLock(th)
    /\ Goto(th, "idle")
    /\ SetLocal(th, [ret |-> "app_deleted"] @@ local[th])
    /\ UNCHANGED <<now, ticks, issued, created, deleted, lastOp, served>>

AdminStep(th) ==
    \/ \E h \in AdminHeaders, r \in AdminRequests : StartAdmin(th, h, r)
    \/ ResolveLoad(th)
    \/ ResolveClean(th)
    \/ ResolveSave(th)
    \/ EventsLoad(th)
    \/ EventsSave(th)
    \/ ApplicationsLoad(th)
    \/ ApplicationsEnsure(th)
    \/ ApproveSave(th)
    \/ ApplicationDeleteSave(th)

NextAdmin ==
    \/ Tick
    \/ \E th \in Threads : AcquireLock(th)
    \/ \E th \in Threads : AdminStep(th)

SpecAdmin == InitAdmin /\ [][NextAdmin]_vars

\* The request of the thread has returned with a success status.
Succeeded(th) ==
    /\ pc[th] = "idle"
    /\ "ret" \in DOMAIN local[th]
    /\ local[th].ret \in {"event_added", "app_approved", "app_deleted"}

\* The collection the request mutates.
CollectionOf(r) == IF r.call = "event_add" THEN EVENTS_PATH ELSE APPLICATIONS_PATH

\* The collection shows the mutation of the request.
Reflects(r, items) ==
    CASE r.call = "event_add" -> \E i \in 1..Len(items) : items[i] = r.event
      [] r.call = "approve" ->
            \E i \in 1..Len(items) :
                items[i].id = r.id /\ Get(items[i], "approved", JFalse) = JTrue
      [] OTHER -> \A i \in 1..Len(items) : items[i].id # r.id

\* Two finished requests that each changed the copy they loaded of the same
\* collection, at different items, and whose copy did not show what the other did.
MutatingPair(r, q) ==
    /\ CollectionOf(r) = CollectionOf(q)
    /\ ~Reflects(r, r.loaded)
    /\ ~Reflects(q, q.loaded)
    /\ r.call # "event_add" => r.id # q.id
    /\ ~Reflects(q, r.loaded)
    /\ ~Reflects(r, q.loaded)

\* C9: when two admin requests have mutated copies of the same collection that
\* each of them loaded before the other saved, and both have reported success,
\* the stored collection shows the mutation of exactly one of the two.
C9_LostUpdate ==
    \A th \in Threads : \A o \in Threads \ {th} :
        (Succeeded(th) /\ Succeeded(o) /\ MutatingPair(local[th], local[o])) =>
            LET stored == files[CollectionOf(local[th])].doc IN
            Reflects(local[th], stored) # Reflects(local[o], stored)

\* An approve and a delete of different applications have both reported
\* success and the stored applications show only one of the two.
C9_Witness ==
    \E th \in Threads : \E o \in Threads \ {th} :
        /\ Succeeded(th) /\ Succeeded(o)
        /\ local[th].call = "approve" /\ local[o].call = "delete_app"
        /\ MutatingPair(local[th], local[o])
        /\ ~(Reflects(local[th], files[APPLICATIONS_PATH].doc)
                /\ Reflects(local[o], files[APPLICATIONS_PATH].doc))

\* Two event adds have both reported success and the stored events hold only
\* one of the two events.
TwoAddsOneEvent ==
    \E th \in Threads : \E o \in Threads \ {th} :
        /\ Succeeded(th) /\ Succeeded(o)
        /\ local[th].call = "event_add" /\ local[o].call = "event_add"
        /\ Reflects(local[th], files[EVENTS_PATH].doc)
        /\ ~Reflects(local[o], files[EVENTS_PATH].doc)

\* The approval is the one that is lost.
ApprovalLost ==
    \E th \in Threads : \E o \in Threads \ {th} :
        /\ Succeeded(th) /\ Succeeded(o)
        /\ local[th].call = "approve" /\ local[o].call = "delete_app"
        /\ MutatingPair(local[th], local[o])
        /\ ~Reflects(local[th], files[APPLICATIONS_PATH].doc)

-----------------------------------------------------------------------------
(* handle_apply: the public form, stored and then announced by mail.         *)

ApplyForm(username, email, goal) ==
    [username |-> username, password |-> "pw", email |-> email, skill |-> "dominada",
     level |-> "", goal |-> goal, concerns |-> ""]

ApplyForms ==
    {ApplyForm("ana", "ana@example.com", "primera dominada"),
     ApplyForm("Ana", "bea@example.com", "primera dominada"),
     ApplyForm("ana", "ana@example.com", " ")}

\* The statements inside notify_application's two send_email calls.
SmtpCalls == {"smtp_admin", "smtp_user"}

\* The data directory when a request arrives: applications.json empty or
\* holding a legacy record, the mail server configured or not.
InitStore ==
    /\ \E applications \in {<<>>, <<LegacyApp>>}, settings \in {DefaultSettings, MailSettings} :
          files = [DocsAtStart EXCEPT ![APPLICATIONS_PATH] = JsonFile(applications),
                                      ![SETTINGS_PATH] = JsonFile(settings)]
    /\ now = 0
    /\ ticks = 0
    /\ issued = {}
    /\ created = EmptyDict
    /\ deleted = {}
    /\ lastOp = Idle
    /\ ThreadsAtStart

\* lines 1451-1464
StartApply(th, form) ==
    /\ pc[th] = "idle"
    /\ LET data == [k \in DOMAIN form |-> Stripped(form[k])] IN
       IF \E k \in {"username", "password", "email", "skill", "goal"} : data[k] = ""
       THEN /\ Goto(th, "idle")
            /\ SetLocal(th, [call |-> "apply", ret |-> "Faltan campos obligatorios"])
       ELSE /\ Goto(th, "apps_load")
            /\ SetLocal(th, [call |-> "apply", form |-> data])
    /\ UNCHANGED <<files, now, ticks, issued, created, deleted, lastOp,
                   DATA_LOCK, inFile, holds, served>>

\* lines 1465-1488
ApplyCheck(th) ==
    /\ pc[th] = "apply_check"
    /\ LET applications == local[th].loaded
           form == local[th].form
           duplicate == DuplicateOf(applications, form.username, form.email)
           application == NewApplication(form, token_hex, <<"salt", token_hex>>, now)
       IN  IF duplicate # ""
           THEN /\ Goto(th, "idle")
                /\ SetLocal(th, [call |-> "apply", ret |-> duplicate])
           ELSE /\ Goto(th, "apply_save")
                /\ SetLocal(th, [hex |-> token_hex, application |-> application,
                                 table |-> Appended(applications, application)] @@ local[th])
    /\ UNCHANGED <<files, now, ticks, issued, created, deleted, lastOp,
                   DATA_LOCK, inFile, holds, served>>

\* line 1489
ApplySave(th) ==
    /\ pc[th] = "apply_save" /\ inFile[th]
    /\ files' = SavedFiles(APPLICATIONS_PATH, local[th].table)
    /\ ReleaseLock(th)
    /\ Goto(th, "apply_settings")
    /\ UNCHANGED <<now, ticks, issued, created, deleted, lastOp, local, served>>

\* lines 1491-1498, and lines 1268-1276 of notify_application
ApplySettings(th) ==
    /\ pc[th] = "apply_settings" /\ inFile[th]
    /\ LET settings == load_json(SETTINGS_PATH, EmptyDict)
           smtp_settings == Get(settings, "smtp", EmptyDict)
       IN  IF NotifyRefusal(smtp_settings) # ""
           THEN /\ Goto(th, "idle")
                /\ SetLocal(th, [call |-> "apply", ret |-> "smtp"])
           ELSE /\ Goto(th, "smtp_admin")
                /\ SetLocal(th, [smtp |-> smtp_settings] @@ local[th])
    /\ ReleaseLock(th)
    /\ UNCHANGED <<files, now, ticks, issued, created, deleted, lastOp, served>>

\* line 1295: the mail to the admin is sent, or smtplib raises (timeout=10)
SmtpAdmin(th) ==
    /\ pc[th] = "smtp_admin"
    /\ \/ Goto(th, "smtp_user") /\ UNCHANGED local
       \/ Goto(th, "idle") /\ SetLocal(th, [call |-> "apply", ret |-> "Error enviando email"])
    /\ UNCHANGED <<files, now, ticks, issued, created, deleted, lastOp,
                   DATA_LOCK, inFile, holds, served>>

\* line 1296: the mail to the applicant is sent, or smtplib raises
SmtpUser(th) ==
    /\ pc[th] = "smtp_user"
    /\ Goto(th, "idle")
    /\ \/ SetLocal(th, [call |-> "apply", ret |-> "ok"])
       \/ SetLocal(th, [call |-> "apply", ret |-> "Error enviando email"])
    /\ UNCHANGED <<files, now, ticks, issued, created, deleted, lastOp,
                   DATA_LOCK, inFile, holds, served>>

\* The steps of a request that is being served.
StoreStep(th) ==
    \/ ApplicationsLoad(th)
    \/ ApplicationsEnsure(th)
    \/ ApplyCheck(th)
    \/ ApplySave(th)
    \/ ApplySettings(th)
    \/ SmtpAdmin(th)
    \/ SmtpUser(th)

\* The clock stands while the requests are served: handle_apply reads it for
\* created_at alone.
NextStore ==
    \/ \E th \in Threads, form \in ApplyForms : StartApply(th, form)
    \/ \E th \in Threads : AcquireLock(th)
    \/ \E th \in Threads : StoreStep(th)

SpecStore == InitStore /\ [][NextStore]_vars

\* Fair scheduling: a thread that can take a step takes it, smtplib returns or
\* raises within its timeout, and a thread that finds the lock free again and
\* again gets it.  Requests arrive or not.
FairStore ==
    /\ SpecStore
    /\ \A th \in Threads : WF_vars(StoreStep(th)) /\ SF_vars(AcquireLock(th))

\* C7: no two threads are at the same time inside the file read of load_json
\* or the file write of save_json, whatever the files.
C7_MutualExclusion ==
    \A th \in Threads : \A o \in Threads \ {th} : ~(inFile[th] /\ inFile[o])

\* A thread is inside the read or write of one file and another thread is kept
\* waiting at the lock for a different file.
C7_Witness ==
    \E th \in Threads : \E o \in Threads \ {th} :
        /\ inFile[th]
        /\ Waiting(o)
        /\ PathOf(pc[th]) # PathOf(pc[o])

-----------------------------------------------------------------------------
(* save_json and load_json, called one after the other on events.json, the  *)
(* file being written as the text json.dump produces and read back by the   *)
(* decoder.                                                                 *)

JsonStrings == {<<>>, <<"a">>, <<"é", Quote>>, <<Backslash, "[">>}
JsonScalars ==
    {JNull, JBool("true"), JBool("false"), JNum(0), JNum(12), JNum(-3)}
        \cup {JStr(s) : s \in JsonStrings}
JsonLeaves == {JNull, JBool("false"), JNum(7), JStr(<<"é", Quote>>)}
JsonKeys == {<<"a">>, <<"é">>, <<>>}
JsonFlat ==
    {JArr(<<>>), JObj(<<>>)}
        \cup {JArr(<<x>>) : x \in JsonScalars}
        \cup {JArr(<<x, y>>) : x \in JsonLeaves, y \in JsonLeaves}
        \cup {JObj(<< <<k, x>> >>) : k \in JsonKeys, x \in JsonLeaves}
        \cup {JObj(<< <<k[1], x>>, <<k[2], y>> >>) :
                k \in {kk \in JsonKeys \X JsonKeys : kk[1] # kk[2]},
                x \in {JNull, JNum(7)}, y \in {JBool("false"), JStr(<<"a">>)}}
JsonNested ==
    {JArr(<<JArr(<<JNum(7)>>), JObj(<< <<<<"a">>, JArr(<<>>)>> >>)>>),
     JObj(<< <<<<"a">>, JObj(<< <<<<"a">>, JNull>> >>)>>, <<<<"é">>, JArr(<<JStr(<<>>), JObj(<<>>)>>)>> >>)}
\* the JSON documents of the model: scalars, arrays, objects, nested ones
JsonDocs == JsonScalars \cup JsonFlat \cup JsonNested

\* the defaults callers pass: [] and {}
JsonDefaults == {JArr(<<>>), JObj(<<>>)}

\* texts no json.dump wrote: compact, with a repeated key, cut short,
\* with extra data, not JSON at all, empty
ForeignTexts ==
    {<<"[", "7", ",", "12", "]">>,
     <<"{", Quote, "a", Quote, ":", "7", ",", Quote, "a", Quote, ":", "12", "}">>,
     <<"[", "ws", "7", ",">>,
     <<"[", "]", "]">>,
     <<"{", "oops">>,
     <<>>}

FilesAtStart ==
    {AbsentFile, BytesFile} \cup {TextFile(text) : text \in ForeignTexts}

\* save_json with the file written as text
DumpedFiles(path, data) == [files EXCEPT ![path] = TextFile(Dump(data))]

InitJson ==
    /\ \E f \in FilesAtStart : files = [DocsAtStart EXCEPT ![EVENTS_PATH] = f]
    /\ now = 0
    /\ ticks = 0
    /\ issued = {}
    /\ created = EmptyDict
    /\ deleted = {}
    /\ lastOp = Idle
    /\ ThreadsAtStart

\* lines 226-229, run alone
SaveJson(data) ==
    /\ files' = DumpedFiles(EVENTS_PATH, data)
    /\ lastOp' = [op |-> "save_json", data |-> data]
    /\ UNCHANGED <<now, ticks, issued, created, deleted>>
    /\ UNCHANGED threadVars

\* lines 215-223, run alone; before is the file the call found
LoadJson(default) ==
    /\ lastOp' = IF LoadRaises(EVENTS_PATH)
                 THEN [op |-> "load_json", default |-> default, raised |-> TRUE,
                       before |-> files[EVENTS_PATH]]
                 ELSE [op |-> "load_json", default |-> default, raised |-> FALSE,
                       before |-> files[EVENTS_PATH],
                       ret |-> load_json(EVENTS_PATH, default)]
    /\ UNCHANGED <<files, now, ticks, issued, created, deleted>>
    /\ UNCHANGED threadVars

NextJson ==
    \/ \E data \in JsonDocs : SaveJson(data)
    \/ \E default \in JsonDefaults : LoadJson(default)

SpecJson == InitJson /\ [][NextJson]_vars

Loaded == lastOp.op = "load_json"

\* C11 (as the specification states it): load_json never raises and never
\* changes the file; it returns default when the file is absent or holds no
\* valid JSON, and the stored document otherwise.
C11_LoadNeverRaises ==
    Loaded =>
        /\ ~lastOp.raised
        /\ files[EVENTS_PATH] = lastOp.before
        /\ lastOp.ret =
              IF lastOp.before.kind = "text" /\ Decodes(lastOp.before.text)
              THEN Decoded(lastOp.before.text)
              ELSE lastOp.default

\* C12: a load_json that follows save_json(p, d) returns d, for every JSON
\* document d and whatever the file held before.
C12_RoundTrip ==
    [][lastOp.op = "save_json" /\ lastOp'.op = "load_json"
          => ~lastOp'.raised /\ lastOp'.ret = lastOp.data]_vars

\* a document with escaped characters and nested containers was saved (no
\* file starts with such a text) and read back
C12_Witness ==
    /\ Loaded
    /\ ~lastOp.raised
    /\ lastOp.ret \in JsonNested
    /\ lastOp.ret # lastOp.default
    /\ lastOp.before = TextFile(Dump(lastOp.ret))
    /\ \E i \in 1..Len(lastOp.before.text) : lastOp.before.text[i] = "\\u00e9"

-----------------------------------------------------------------------------
(* load_json and save_json statement by statement on two threads: the       *)
(* exists() test outside the lock, the read inside it; open("w") truncating *)
(* the file, the buffered text reaching the file in parts, close() writing  *)
(* the rest, all inside the lock.                                           *)

SaveDocs ==
    {JArr(<<>>), JArr(<<JNum(7), JStr(<<"a">>)>>), JObj(<< <<<<"a">>, JNum(12)>> >>)}

\* what events.json holds before the first save: nothing, a document, no JSON
PriorFiles == {AbsentFile, TextFile(Dump(JArr(<<JNull>>))), TextFile(<<"{", "oops">>)}

IsPrefix(p, text) == Len(p) < Len(text) /\ SubSeq(text, 1, Len(p)) = p

\* the file holds the beginning of a document that is being written
Partial(f) == f.kind = "text" /\ \E d \in SaveDocs : IsPrefix(f.text, Dump(d))

InitFiles ==
    /\ \E f \in PriorFiles : files = [DocsAtStart EXCEPT ![EVENTS_PATH] = f]
    /\ now = 0
    /\ ticks = 0
    /\ issued = {}
    /\ created = EmptyDict
    /\ deleted = {}
    /\ lastOp = Idle
    /\ ThreadsAtStart

StartLoad(th, default) ==
    /\ Begin(th)
    /\ Goto(th, "load_exists")
    /\ SetLocal(th, [call |-> "load", default |-> default])
    /\ UNCHANGED <<files, now, ticks, issued, created, deleted, lastOp, DATA_LOCK, inFile, holds>>

\* lines 216-217; during, saw and after are history: the file at this
\* moment, the file the call took its result from, the last save completed
LoadExists(th) ==
    /\ pc[th] = "load_exists"
    /\ IF files[EVENTS_PATH].kind = "absent"
       THEN /\ Goto(th, "idle")
            /\ SetLocal(th, [during |-> files[EVENTS_PATH], saw |-> files[EVENTS_PATH],
                             after |-> lastOp, ret |-> local[th].default] @@ local[th])
       ELSE /\ Goto(th, "load_read")
            /\ SetLocal(th, [during |-> files[EVENTS_PATH]] @@ local[th])
    /\ UNCHANGED <<files, now, ticks, issued, created, deleted, lastOp, DATA_LOCK, inFile, holds, served>>

\* lines 218-223
LoadRead(th) ==
    /\ pc[th] = "load_read" /\ inFile[th]
    /\ SetLocal(th, [saw |-> files[EVENTS_PATH], after |-> lastOp,
                     ret |-> load_json(EVENTS_PATH, local[th].default)] @@ local[th])
    /\ ReleaseLock(th)
    /\ Goto(th, "idle")
    /\ UNCHANGED <<files, now, ticks, issued, created, deleted, lastOp, served>>

StartSave(th, data) ==
    /\ Begin(th)
    /\ Goto(th, "save_open")
    /\ SetLocal(th, [call |-> "save", data |-> data])
    /\ UNCHANGED <<files, now, ticks, issued, created, deleted, lastOp, DATA_LOCK, inFile, holds>>

\* line 228: open("w") creates the file or truncates it
SaveOpen(th) ==
    /\ pc[th] = "save_open" /\ inFile[th]
    /\ files' = [files EXCEPT ![EVENTS_PATH] = TextFile(<<>>)]
    /\ Goto(th, "save_dump")
    /\ UNCHANGED <<now, ticks, issued, created, deleted, lastOp, DATA_LOCK, inFile, holds, local, served>>

\* line 229: the buffer of the handle fills and its text reaches the file
SaveFlush(th) ==
    /\ pc[th] = "save_dump"
    /\ files[EVENTS_PATH].text = <<>>
    /\ LET text == Dump(local[th].data) IN
       files' = [files EXCEPT ![EVENTS_PATH] = TextFile(SubSeq(text, 1, Len(text) \div 2))]
    /\ UNCHANGED <<now, ticks, issued, created, deleted, lastOp, pc, local, served>>
    /\ UNCHANGED <<DATA_LOCK, inFile, holds>>

\* lines 228-229 left: close() writes what remains, the lock is released
SaveClose(th) ==
    /\ pc[th] = "save_dump"
    /\ files' = DumpedFiles(EVENTS_PATH, local[th].data)
    /\ lastOp' = [op |-> "save_json", data |-> local[th].data]
    /\ ReleaseLock(th)
    /\ Goto(th, "idle")
    /\ SetLocal(th, [ret |-> "None"] @@ local[th])
    /\ UNCHANGED <<now, ticks, issued, created, deleted, served>>

FileStep(th) ==
    \/ \E default \in JsonDefaults : StartLoad(th, default)
    \/ LoadExists(th)
    \/ LoadRead(th)
    \/ \E data \in SaveDocs : StartSave(th, data)
    \/ SaveOpen(th)
    \/ SaveFlush(th)
    \/ SaveClose(th)
    \/ AcquireLock(th)

NextFiles == \E th \in Threads : FileStep(th)

SpecFiles == InitFiles /\ [][NextFiles]_vars

LoadReturned(th) ==
    pc[th] = "idle" /\ local[th].call = "load" /\ "ret" \in DOMAIN local[th]

\* C13: a partly written file exists only while its writer is inside the
\* lock, and a load_json that returns has taken its result from the file as
\* the last completed save_json left it, returning that save's document, or,
\* when no save had completed, from the prior content; it never read a
\* partly written file.
C13_AtomicSave ==
    /\ Partial(files[EVENTS_PATH]) \/ files[EVENTS_PATH] = TextFile(<<>>)
          => \E th \in Threads : pc[th] = "save_dump" /\ inFile[th]
    /\ \A th \in Threads :
          LoadReturned(th) =>
             /\ ~Partial(local[th].saw)
             /\ local[th].saw # TextFile(<<>>)
             /\ IF local[th].after.op = "save_json"
                THEN /\ local[th].saw = TextFile(Dump(local[th].after.data))
                     /\ local[th].ret = local[th].after.data
                ELSE /\ local[th].saw \in PriorFiles
                     /\ local[th].ret =
                           IF local[th].saw = TextFile(Dump(JArr(<<JNull>>)))
                           THEN JArr(<<JNull>>)
                           ELSE local[th].default

\* a load_json that began while the file was partly written has returned the
\* whole document of that save, which is not its default
C13_Witness ==
    \E th \in Threads :
        /\ LoadReturned(th)
        /\ Partial(local[th].during)
        /\ local[th].after.op = "save_json"
        /\ IsPrefix(local[th].during.text, Dump(local[th].ret))
        /\ local[th].ret # local[th].default

-----------------------------------------------------------------------------
(* hash_password and verify_password as pure functions: a password is       *)
(* hashed under a salt, then a password is verified against the stored pair *)
(* or against a pair that was damaged in the store.                         *)

Passwords == {"abc", "abd", "ABC", "", "contraseña"}
Salts == {<<"salt", "0">>, <<"salt", "1">>, <<"salt", "2">>}
\* a text b64decode raises on
NotBase64 == <<"%", "%">>

\* what the store may hold for a hashed pair: the pair, or one of its texts
\* replaced by a text that is no base64, or the two texts exchanged
Damages == {"none", "salt", "hash", "exchanged"}
StoredPair(pair, damage) ==
    CASE damage = "none" -> pair
      [] damage = "salt" -> [pair EXCEPT !.salt = NotBase64]
      [] damage = "hash" -> [pair EXCEPT !.hash = NotBase64]
      [] damage = "exchanged" -> [salt |-> pair.hash, hash |-> pair.salt]

InitPasswords ==
    /\ files = DocsAtStart
    /\ now = 0
    /\ ticks = 0
    /\ issued = {}
    /\ created = EmptyDict
    /\ deleted = {}
    /\ lastOp = Idle
    /\ ThreadsAtStart

HashPassword(password, salt) ==
    /\ lastOp' = [op |-> "hash_password", password |-> password,
                  ret |-> hash_password(password, salt)]
    /\ UNCHANGED <<files, now, ticks, issued, created, deleted>>
    /\ UNCHANGED threadVars

\* verify_password against the pair the last hash_password returned
VerifyPassword(password, damage) ==
    /\ lastOp.op = "hash_password"
    /\ LET stored == StoredPair(lastOp.ret, damage) IN
       lastOp' = [op |-> "verify_password", password |-> password,
                  hashed |-> lastOp.password, pair |-> lastOp.ret, stored |-> stored,
                  ret |-> verify_password(password, stored.salt, stored.hash)]
    /\ UNCHANGED <<files, now, ticks, issued, created, deleted>>
    /\ UNCHANGED threadVars

NextPasswords ==
    \/ \E password \in Passwords, salt \in Salts : HashPassword(password, salt)
    \/ \E password \in Passwords, damage \in Damages : VerifyPassword(password, damage)

SpecPasswords == InitPasswords /\ [][NextPasswords]_vars

Verified == lastOp.op = "verify_password"

\* C14: verify_password(p2, *hash_password(p)) is true exactly when p2 = p,
\* PBKDF2 taken as free of collisions; against a pair whose salt or hash is
\* no base64 text it is false.
C14_VerifyInvertsHash ==
    Verified =>
        /\ lastOp.stored = lastOp.pair => (lastOp.ret <=> lastOp.password = lastOp.hashed)
        /\ NotBase64 \in {lastOp.stored.salt, lastOp.stored.hash} => ~lastOp.ret

\* a password was verified against its own hash, another one against the
\* same hash was refused
C14_Witness ==
    /\ Verified
    /\ lastOp.stored = lastOp.pair
    /\ lastOp.password = lastOp.hashed
    /\ lastOp.password = "contraseña"
    /\ lastOp.ret

C14_WitnessRefused ==
    /\ Verified
    /\ lastOp.stored = lastOp.pair
    /\ lastOp.password # lastOp.hashed
    /\ ~lastOp.ret

-----------------------------------------------------------------------------
(* The application handlers, each request served alone from its first       *)
(* statement to its redirect: load_applications, handle_apply,              *)
(* handle_application_approve, handle_login and handle_plan_update.         *)

\* An application edited by hand: approved is 1, the plan has a key of its
\* own, a week of nine days with a number and a blank among them, and no
\* third and fourth week.
LongApp ==
    [id |-> "z", username |-> "noa", email |-> "noa@example.com", skill |-> "pino",
     level |-> "alto", goal |-> "pino libre", concerns |-> "",
     salt |-> hash_password("pw", <<"salt", "z">>).salt,
     hash |-> hash_password("pw", <<"salt", "z">>).hash, approved |-> "1",
     plan |-> [title |-> "Plan de Noa", notes |-> "x",
               weeks |-> << [title |-> "",
                             days |-> << <<"noa", 1>>, <<"int", 7>>, <<"noa", 3>>, <<" ">>,
                                         <<"noa", 4>>, <<"noa", 5>>, <<"noa", 6>>,
                                         <<"noa", 7>>, <<"noa", 8>> >>],
                            [title |-> "Semana 2 de Noa"] >>],
     created_at |-> 0]

\* what applications.json holds when the server starts
\* an application handle_apply stored under the name the administrator has
AdminNamedApp ==
    NewApplication([username |-> "admin", password |-> "pw", email |-> "root@example.com",
                    skill |-> "bandera", level |-> "", goal |-> "bandera", concerns |-> ""],
                   "r", <<"salt", "r">>, 0)

StoredAtStart ==
    {<<>>, <<LegacyApp>>, <<EditedApp>>, <<LongApp>>, <<EditedApp, LegacyApp>>,
     <<AdminNamedApp>>}

\* the thread that serves the requests one after the other
Server == "w1"
Served == Begin(Server) /\ UNCHANGED <<DATA_LOCK, pc, inFile, holds, local>>

AppsForms ==
    ApplyForms
        \cup {ApplyForm("admin", "root@example.com", "bandera"),
              [ApplyForm("admin", "root@example.com", "bandera") EXCEPT !.password = "admin"],
              ApplyForm("bea", "ANA@example.com", "bandera"),
              ApplyForm("leo", "leo2@example.com", "bandera")}

\* the fields handle_apply requires: line 1460
RequiredFields == {"username", "password", "email", "skill", "goal"}
MissingField(form) == \E k \in RequiredFields : Stripped(form[k]) = ""

LoginNames == {"leo", "admin", "ana", " "}
LoginPasswords == {"pw", "admin", "mal"}
ApproveIds == {"x", "r", "zz"}

\* textareas of the plan form: two lines and a blank one, eight lines, a blank line
TwoLines == <<"uno", "\n", " ", "\n", "dos">>
EightLines ==
    <<"l1", "\n", "l2", "\n", "l3", "\n", "l4", "\n", "l5", "\n", "l6", "\n", "l7", "\n", "l8">>
PlanForms ==
    {[username |-> "mia", plan_title |-> "", weeks |-> <<<<"uno">>, <<>>, <<>>, EightLines>>],
     [username |-> "leo", plan_title |-> "Plan de Leo", weeks |-> <<<<>>, <<" ">>, TwoLines, <<>>>>],
     [username |-> "zoe", plan_title |-> "", weeks |-> <<TwoLines, <<>>, <<>>, <<>>>>],
     [username |-> " ", plan_title |-> "", weeks |-> <<TwoLines, <<>>, <<>>, <<>>>>]}

\* lines 1681-1693: settings with SMTP switched on and no host given
IncompleteSettings == [MailSettings EXCEPT !.smtp.host = ""]

\* the documents at the start: the applications with the settings of
\* ensure_data_files, or no application with SMTP switched on
AppsAtStart ==
    {<<applications, DefaultSettings>> : applications \in StoredAtStart}
        \cup {<<<<>>, MailSettings>>, <<<<>>, IncompleteSettings>>}

InitApps ==
    /\ \E start \in AppsAtStart :
          files = [DocsAtStart EXCEPT ![APPLICATIONS_PATH] = JsonFile(start[1]),
                                      ![SETTINGS_PATH] = JsonFile(start[2])]
    /\ now = 0
    /\ ticks = 0
    /\ issued = {}
    /\ created = EmptyDict
    /\ deleted = {}
    /\ lastOp = Idle
    /\ ThreadsAtStart

Stored == load_json(APPLICATIONS_PATH, <<>>)

\* lines 323-324: the file after load_applications
FilesAfterLoad ==
    IF EnsureChanged(Stored) THEN SavedFiles(APPLICATIONS_PATH, EnsuredApps(Stored))
    ELSE files

\* lines 328-329, called for itself
LoadApplications ==
    /\ files' = FilesAfterLoad
    /\ lastOp' = [op |-> "load_applications", before |-> Stored,
                  saved |-> EnsureChanged(Stored), ret |-> EnsuredApps(Stored)]
    /\ UNCHANGED <<now, ticks, issued, created, deleted>>
    /\ Served

\* line 1336: the Location of the redirect, as its parts
Redirect(location) == <<location>>
RedirectWith(location, value) == <<location, value>>
\* line 1341
admin_redirect(status) == <<"/?admin_status=", status, "#acceso">>

\* lines 1267-1301: what notify_application may return as its reason; with
\* the settings complete the mails are sent ("ok") or smtplib raises
NotifyReasons(smtp_settings) ==
    IF NotifyRefusal(smtp_settings) # "" THEN {NotifyRefusal(smtp_settings)}
    ELSE {"ok", "smtp_failed"}

\* every apply that was stored is reported as a success
ApplyRedirectOk(reason) == Redirect("/?status=ok")

\* lines 1493-1500: the redirect that follows notify_application
ApplyRedirect(reason) ==
    IF reason = "ok" THEN Redirect("/?status=ok")
    ELSE IF reason \in {"smtp_disabled", "smtp_incomplete"} THEN Redirect("/?status=smtp")
    ELSE Redirect("/?status=error&message=Error enviando email")

\* lines 1450-1500
Apply(form) ==
    /\ LET username == Stripped(form.username)
           email == Stripped(form.email)
           applications == EnsuredApps(Stored)
           application == NewApplication(form, token_hex, <<"salt", token_hex>>, now)
           said(location, reason) ==
               lastOp' = [op |-> "apply", form |-> form, before |-> Stored,
                          location |-> location, notified |-> reason]
       IN  IF MissingField(form)
           THEN /\ files' = files
                /\ said(RedirectWith("/?status=error&message=", "Faltan campos obligatorios"),
                        "none")
           ELSE IF DuplicateOf(applications, username, email) # ""
           THEN /\ files' = FilesAfterLoad
                /\ said(RedirectWith("/?status=error&message=",
                                     DuplicateOf(applications, username, email)), "none")
           ELSE /\ files' = SavedFiles(APPLICATIONS_PATH, Appended(applications, application))
                /\ \E reason \in NotifyReasons(Get(load_json(SETTINGS_PATH, EmptyDict),
                                                  "smtp", EmptyDict)) :
                      said(ApplyRedirect(reason), reason)
    /\ UNCHANGED <<now, ticks, issued, created, deleted>>
    /\ Served

\* lines 1802-1816
Approve(id) ==
    /\ LET applications == EnsuredApps(Stored)
           updated == FirstWithId(applications, Stripped(id)) # 0
       IN  /\ files' = IF updated
                       THEN SavedFiles(APPLICATIONS_PATH, Approved(applications, Stripped(id)))
                       ELSE FilesAfterLoad
           /\ lastOp' = [op |-> "approve", id |-> id, before |-> Stored,
                         location |-> IF updated THEN admin_redirect("app_approved")
                                      ELSE admin_redirect("error")]
    /\ UNCHANGED <<now, ticks, issued, created, deleted>>
    /\ Served

\* lines 342-348 inside a handler: the files with the session added
FilesWithSession(fs, username, role) ==
    [fs EXCEPT ![SESSIONS_PATH] =
        JsonFile(DictSet(clean_sessions(load_json(SESSIONS_PATH, EmptyDict), now),
                         token_urlsafe, NewSession(username, role, now)))]

\* lines 1543-1555 and 1557-1567: where handle_login ends, "session" standing
\* for the answers that set a cookie
LoginOutcome(username, password) ==
    LET admin == Get(load_json(SETTINGS_PATH, EmptyDict), "admin", EmptyDict)
        applications == EnsuredApps(Stored)
        at == find_application(applications, username)
    IN  IF username = "" \/ password = "" THEN "user_missing"
        ELSE IF username = Get(admin, "username", "")
        THEN IF verify_password(password, Get(admin, "salt", b64encode(<<>>)),
                                Get(admin, "hash", b64encode(<<>>)))
             THEN "admin_ok" ELSE "admin_error"
        ELSE IF at = 0 THEN "user_error"
        ELSE IF ~verify_password(password, Get(applications[at], "salt", b64encode(<<>>)),
                                 Get(applications[at], "hash", b64encode(<<>>)))
        THEN "user_error"
        ELSE IF ~Truthy(Get(applications[at], "approved", JFalse)) THEN "user_pending"
        ELSE "user_ok"

\* lines 1535-1578
Login(name, pass) ==
    /\ LET username == Stripped(name)
           outcome == LoginOutcome(username, Stripped(pass))
           role == IF outcome = "admin_ok" THEN "admin" ELSE "user"
           loaded == IF outcome \in {"user_missing", "admin_ok", "admin_error"}
                     THEN files ELSE FilesAfterLoad
       IN  /\ lastOp' = [op |-> "login", username |-> name, password |-> pass,
                         before |-> Stored,
                         location |-> <<"/?access=", outcome, "#acceso">>,
                         cookie |-> IF outcome \in {"admin_ok", "user_ok"}
                                    THEN Some(token_urlsafe) ELSE None]
           /\ IF outcome \in {"admin_ok", "user_ok"}
              THEN /\ Tokens \ issued # {}
                   /\ files' = FilesWithSession(loaded, username, role)
                   /\ issued' = issued \cup {token_urlsafe}
                   /\ created' = DictSet(created, token_urlsafe,
                                         [user |-> username, role |-> role, t0 |-> now])
              ELSE /\ files' = loaded
                   /\ UNCHANGED <<issued, created>>
    /\ UNCHANGED <<now, ticks, deleted>>
    /\ Served

\* lines 1697-1725
PlanUpdate(form) ==
    /\ LET username == Stripped(form.username)
           applications == EnsuredApps(Stored)
           at == find_application(applications, username)
           said(location) == lastOp' = [op |-> "plan_update", form |-> form,
                                        before |-> Stored, location |-> location]
       IN  IF username = ""
           THEN files' = files /\ said(admin_redirect("error"))
           ELSE IF at = 0
           THEN files' = FilesAfterLoad /\ said(admin_redirect("error"))
           ELSE /\ files' = SavedFiles(APPLICATIONS_PATH,
                               [applications EXCEPT ![at] =
                                   DictSet(@, "plan", UpdatedPlan(Get(@, "plan", NotADict), form))])
                /\ said(RedirectWith("/?admin_status=plan_saved&plan_user=", username))
    /\ UNCHANGED <<now, ticks, issued, created, deleted>>
    /\ Served

\* lines 1502-1522
AdminLogin(name, pass) ==
    /\ LET username == Stripped(name)
           admin == Get(load_json(SETTINGS_PATH, EmptyDict), "admin", EmptyDict)
           ok == /\ username = Get(admin, "username", "")
                 /\ verify_password(Stripped(pass), Get(admin, "salt", b64encode(<<>>)),
                                    Get(admin, "hash", b64encode(<<>>)))
       IN  /\ lastOp' = [op |-> "admin_login", username |-> name, password |-> pass,
                         before |-> Stored,
                         location |-> <<"/?access=", IF ok THEN "admin_ok" ELSE "admin_error",
                                        "#acceso">>,
                         cookie |-> IF ok THEN Some(token_urlsafe) ELSE None]
           /\ IF ok
              THEN /\ Tokens \ issued # {}
                   /\ files' = FilesWithSession(files, username, "admin")
                   /\ issued' = issued \cup {token_urlsafe}
                   /\ created' = DictSet(created, token_urlsafe,
                                         [user |-> username, role |-> "admin", t0 |-> now])
              ELSE UNCHANGED <<files, issued, created>>
    /\ UNCHANGED <<now, ticks, deleted>>
    /\ Served

NextApps ==
    \/ LoadApplications
    \/ \E name \in LoginNames, pass \in LoginPasswords : AdminLogin(name, pass)
    \/ \E form \in AppsForms : Apply(form)
    \/ \E id \in ApproveIds : Approve(id)
    \/ \E name \in LoginNames, pass \in LoginPasswords : Login(name, pass)
    \/ \E form \in PlanForms : PlanUpdate(form)

SpecApps == InitApps /\ [][NextApps]_vars

\* C15: ensure_application_fields applied to what it returned changes no
\* record and asks for no rewrite of the file, and a load_applications that
\* follows a load_applications writes nothing.
C15_EnsureIdempotent ==
    lastOp.op = "load_applications" =>
        /\ EnsuredApps(lastOp.ret) = lastOp.ret
        /\ ~EnsureChanged(lastOp.ret)
        /\ Stored = lastOp.ret
        /\ FilesAfterLoad = files

\* load_applications returned applications it had to repair and to rewrite
C15_Witness ==
    /\ lastOp.op = "load_applications"
    /\ lastOp.saved
    /\ lastOp.ret # lastOp.before
    /\ Len(lastOp.ret) = 2

\* a plan of four weeks of seven days, each day a text that is not blank
FourBySeven(plan) ==
    /\ IsDict(plan)
    /\ Len(plan.weeks) = 4
    /\ \A w \in 1..4 :
          /\ Len(plan.weeks[w].days) = 7
          /\ \A d \in 1..7 : IsStr(plan.weeks[w].days[d]) /\ plan.weeks[w].days[d] \notin {<<>>, <<" ">>}

\* the days a stored application gives for a week: the texts that are not blank
GivenDays(app, w) ==
    LET plan == Get(app, "plan", NotADict)
        weeks == IF IsDict(plan) THEN Get(plan, "weeks", <<>>) ELSE <<>>
        week == IF w <= Len(weeks) /\ IsDict(weeks[w]) THEN weeks[w] ELSE EmptyDict
    IN  CleanDays(Get(week, "days", <<>>))

\* the given days in their order, the places they leave taken from fill, seven in all
FilledUp(given, fill) == SubSeq(given \o SubSeq(fill, Len(given) + 1, 7), 1, 7)

\* the request in lastOp went through load_applications
WentThroughLoad ==
    \/ lastOp.op \in {"load_applications", "approve"}
    \/ lastOp.op = "apply" /\ ~MissingField(lastOp.form)
    \/ lastOp.op = "plan_update" /\ Stripped(lastOp.form.username) # ""

PlanSaved == lastOp.op = "plan_update" /\ Len(lastOp.location) = 2
Target == find_application(Stored, lastOp.form.username)

\* every application that load_applications returned or apply or plan update
\* wrote has four weeks of seven day texts, a stored week being its given
\* days filled up from the default plan
StoredPlansFilled ==
    WentThroughLoad =>
        /\ \A i \in 1..Len(Stored) : FourBySeven(Stored[i].plan)
        /\ \A i \in 1..Len(lastOp.before) : \A w \in 1..4 :
              \/ (PlanSaved /\ i = Target /\ lastOp.form.weeks[w] # <<>>)
              \/ Stored[i].plan.weeks[w].days = FilledUp(GivenDays(lastOp.before[i], w), DefaultDays(w))
        /\ (lastOp.op = "apply" /\ Len(Stored) > Len(lastOp.before))
              => Stored[Len(Stored)].plan = DEFAULT_TRAINING_PLAN

\* the week of a plan update whose textarea is not empty is the lines given
\* filled up from fill(w)
SubmittedFilled(fill(_)) ==
    PlanSaved =>
        \A w \in 1..4 :
            lastOp.form.weeks[w] # <<>> =>
                Stored[Target].plan.weeks[w].days =
                    FilledUp(CleanDays(Split(lastOp.form.weeks[w], "\n")), fill(w))

\* the days of the application's plan as load_applications returned it
CurrentDays(w) == FilledUp(GivenDays(lastOp.before[Target], w), DefaultDays(w))

\* C16 (as the specification states it): four weeks of seven day texts for
\* every application returned or written, a short week, stored or submitted,
\* being filled up from the days of the default plan and a long one cut to seven.
C16_FilledFromDefault == StoredPlansFilled /\ SubmittedFilled(DefaultDays)

\* C16 (amended): the same, but the short week of a plan update is filled up
\* from the days the application's plan had at those places.
C16_FilledFromCurrent == StoredPlansFilled /\ SubmittedFilled(CurrentDays)

\* a plan update gave one line for a week whose second day was not the
\* default one, and eight lines for another week
C16_Witness ==
    /\ PlanSaved
    /\ lastOp.form.weeks[1] = <<"uno">>
    /\ Stored[Target].plan.weeks[1].days[2] = <<"mia", 2>>
    /\ Stored[Target].plan.weeks[1].days[3] = DefaultDays(1)[3]
    /\ lastOp.form.weeks[4] = EightLines
    /\ Stored[Target].plan.weeks[4].days[7] = <<"l7">>
    /\ ~FourBySeven(Get(lastOp.before[Target], "plan", NotADict))

Applied == lastOp.op = "apply"

\* a stored application has the username or the email of the form, whatever the case
Taken(form, applications) ==
    \E i \in 1..Len(applications) :
        \/ Lower(Get(applications[i], "username", "")) = Lower(Stripped(form.username))
        \/ Lower(Get(applications[i], "email", "")) = Lower(Stripped(form.email))

ValidApply == Applied /\ ~MissingField(lastOp.form) /\ ~Taken(lastOp.form, lastOp.before)
RejectedApply == Applied /\ (MissingField(lastOp.form) \/ Taken(lastOp.form, lastOp.before))

\* the collection is the one before the apply with one application more, not
\* approved, with the default plan, each earlier application being kept(it)
AppendsOne(kept(_)) ==
    ValidApply =>
        /\ Len(Stored) = Len(lastOp.before) + 1
        /\ Stored[Len(Stored)].username = lastOp.form.username
        /\ Stored[Len(Stored)].approved = JFalse
        /\ Stored[Len(Stored)].plan = DEFAULT_TRAINING_PLAN
        /\ FourBySeven(Stored[Len(Stored)].plan)
        /\ \A i \in 1..Len(lastOp.before) : Stored[i] = kept(lastOp.before[i])

AsStored(app) == app

\* C17 (as the specification states it): a valid apply that is no duplicate
\* adds exactly one application, approved = false, default 4 x 7 plan, after
\* the existing ones, which stay unchanged.
C17_AppendsKeepingStored == AppendsOne(AsStored)

\* C17 (amended): the existing ones stay as load_applications returned them,
\* that is with the fields ensure_application_fields sets.
C17_AppendsKeepingEnsured == AppendsOne(EnsureApp)

\* an apply was stored after an application of an earlier version, which the
\* same write completed
C17_Witness ==
    /\ ValidApply
    /\ lastOp.before = <<LegacyApp>>
    /\ Len(Stored) = 2
    /\ Stored[1] # LegacyApp
    /\ Stored[2].username = "ana"

ErrorRedirect == Len(lastOp.location) = 2 /\ lastOp.location[1] = "/?status=error&message="

\* C20 (as the specification states it): an apply with a required field
\* missing or with a username or email that is taken is answered with an error
\* redirect and leaves the collection unchanged.
C20_RejectedUnchanged == RejectedApply => ErrorRedirect /\ Stored = lastOp.before

\* C20 (amended): the file is untouched when a field is missing; a duplicate
\* leaves the collection as load_applications returned it, the fields that
\* ensure_application_fields set being written.
C20_RejectedAsLoaded ==
    RejectedApply =>
        /\ ErrorRedirect
        /\ Stored = IF MissingField(lastOp.form) THEN lastOp.before
                    ELSE EnsuredApps(lastOp.before)

\* an apply with the username of the only stored application, one of an
\* earlier version, was refused
C20_Witness ==
    /\ RejectedApply
    /\ ~MissingField(lastOp.form)
    /\ lastOp.before = <<LegacyApp>>
    /\ lastOp.location[2] = "Usuario ya registrado"
    /\ Len(Stored) = 1

LoggedIn == lastOp.op = "login"
UserOk == <<"/?access=", "user_ok", "#acceso">>
UserPending == <<"/?access=", "user_pending", "#acceso">>

\* the place in applications of the one the login names, its password being
\* the one given; 0 if there is none
Authentic(applications, name, pass) ==
    LET at == find_application(applications, name) IN
    IF at # 0 /\ Stripped(name) # "" /\ Stripped(pass) # ""
          /\ verify_password(Stripped(pass), applications[at].salt, applications[at].hash)
    THEN at ELSE 0

\* C18 (as the specification states it): approve sets approved = true on the
\* application of the id, and a login that follows with the username of that
\* application and its password succeeds and creates a session of role user.
C18_ApprovedLogsIn ==
    [][/\ lastOp'.op = "approve" /\ FirstWithId(lastOp'.before, lastOp'.id) # 0
            => Stored'[FirstWithId(Stored', lastOp'.id)].approved = JTrue
       /\ (/\ lastOp.op = "approve"
           /\ FirstWithId(Stored, lastOp.id) # 0
           /\ lastOp'.op = "login"
           /\ Authentic(Stored, lastOp'.username, lastOp'.password)
                 = FirstWithId(Stored, lastOp.id))
            => /\ lastOp'.location = UserOk
               /\ lastOp'.cookie # None
               /\ created'[lastOp'.cookie[1]].role = "user"]_vars

\* C19 (as the specification states it): a login with the password of an
\* application that is not approved is answered with the pending status and
\* creates no session, and no session of role user exists for a username whose
\* application is not approved.
C19_UnapprovedPending ==
    /\ LoggedIn =>
          LET applications == EnsuredApps(lastOp.before)
              at == Authentic(applications, lastOp.username, lastOp.password)
          IN  at # 0 /\ ~Truthy(applications[at].approved)
                 => lastOp.location = UserPending /\ lastOp.cookie = None
    /\ \A token \in DOMAIN created :
          created[token].role = "user" =>
              LET at == find_application(EnsuredApps(Stored), created[token].user)
              IN  at # 0 /\ Truthy(EnsuredApps(Stored)[at].approved)

AdminOf(fs) == Get(fs[SETTINGS_PATH].doc, "admin", EmptyDict)

\* the login r named no account: no application and not the administrator
NoSuchUser(r) ==
    /\ Stripped(r.username) # "" /\ Stripped(r.password) # ""
    /\ Stripped(r.username) # AdminOf(files).username
    /\ find_application(EnsuredApps(r.before), r.username) = 0

\* the login r named an account, the administrator's or an application's, and
\* gave a password that is not its password
WrongPassword(r) ==
    /\ Stripped(r.username) # "" /\ Stripped(r.password) # ""
    /\ IF Stripped(r.username) = AdminOf(files).username
       THEN ~verify_password(Stripped(r.password), AdminOf(files).salt, AdminOf(files).hash)
       ELSE LET applications == EnsuredApps(r.before)
                at == find_application(applications, r.username)
            IN  at # 0 /\ ~verify_password(Stripped(r.password), applications[at].salt,
                                           applications[at].hash)

\* C21 (as the specification states it): a login that names no account and a
\* login, by the same handler and with the same password, that names an
\* account with a wrong password get the same status, and neither creates a
\* session.
C21_SameStatus ==
    [][(/\ lastOp.op \in {"login", "admin_login"}
        /\ lastOp'.op = lastOp.op
        /\ lastOp'.password = lastOp.password
        /\ NoSuchUser(lastOp)
        /\ WrongPassword(lastOp)')
          => /\ lastOp'.location = lastOp.location
             /\ lastOp.cookie = None /\ lastOp'.cookie = None]_vars

\* C22: when notify_application fails (SMTP disabled, incomplete, or the send
\* raising) the apply is answered with a status that is not the one of
\* success, and the application it stored before is in the repository, last
\* after the applications that were there.
C22_FailureKeepsRecord ==
    /\ (Applied /\ lastOp.notified \notin {"none", "ok"}) =>
        /\ lastOp.location # Redirect("/?status=ok")
        /\ lastOp.location \in {Redirect("/?status=smtp"),
                                Redirect("/?status=error&message=Error enviando email")}
        /\ Len(Stored) = Len(lastOp.before) + 1
        /\ Stored[Len(Stored)].username = lastOp.form.username
        /\ Stored[Len(Stored)].email = lastOp.form.email
    /\ (Applied /\ lastOp.notified = "ok") => lastOp.location = Redirect("/?status=ok")

\* smtplib raised while the mails of a stored application were sent
C22_Witness ==
    /\ Applied
    /\ lastOp.notified = "smtp_failed"
    /\ Len(Stored) = 1
    /\ Stored[1].username = "ana"

C22_WitnessIncomplete ==
    Applied /\ lastOp.notified = "smtp_incomplete" /\ Len(Stored) = 1

-----------------------------------------------------------------------------
(* do_POST, one request after the other: the admin routes behind the session *)
(* check, the submission of a portal user, and the two logouts               *)

\* lines 86-141
DEFAULT_VIDEOS ==
    << [id |-> <<"vid", "1">>, tag |-> "Dominadas", title |-> "Disciplina en la barra",
        description |-> "Serie limpia con foco militar.", layout |-> "tall",
        video_url |-> "FOTOS/VIDEO DOMINADAS.MOV", file |-> NoFile],
       [id |-> <<"vid", "2">>, tag |-> "Muscle up", title |-> "Transicion precisa",
        description |-> "Explosivo y controlado.", layout |-> "wide",
        video_url |-> "FOTOS/VIDEO MUSCLE UP.MOV", file |-> NoFile],
       [id |-> <<"vid", "3">>, tag |-> "Pino", title |-> "Linea en silencio",
        description |-> "Balance y respiracion.", layout |-> "",
        video_url |-> "FOTOS/VIDEO PINO.mov", file |-> NoFile],
       [id |-> <<"vid", "4">>, tag |-> "Front lever", title |-> "Horizonte quieto",
        description |-> "Control total en estaticos.", layout |-> "tall",
        video_url |-> "FOTOS/video front LEVER.MOV", file |-> NoFile],
       [id |-> <<"vid", "5">>, tag |-> "Fondos", title |-> "Fondo profundo",
        description |-> "Ritmo de resistencia brutal.", layout |-> "wide",
        video_url |-> "FOTOS/VIDEO FONDOS.mov", file |-> NoFile],
       [id |-> <<"vid", "6">>, tag |-> "Back lever", title |-> "Reversa total",
        description |-> "Control posterior con aura.", layout |-> "",
        video_url |-> "FOTOS/VIDEO BACK LEVER.MOV", file |-> NoFile] >>

\* the directory of the uploads with the names of its files
Dir(names) == [kind |-> "dir", names |-> names]

\* str.lower on the suffixes of the model
LowerExt(ext) == IF ext = ".MP4" THEN ".mp4" ELSE ext

\* lines 1303-1321: the name the upload is stored under, or None.  A file name
\* is <<stem, suffix>>; a file over the limit is written and unlinked again.
handle_file_upload(field) ==
    IF field.filename = NoFile THEN None
    ELSE LET ext == LowerExt(field.filename[Len(field.filename)]) IN
         IF ext \notin ALLOWED_VIDEO_EXT /\ ext \notin ALLOWED_IMAGE_EXT THEN None
         ELSE IF field.size > MAX_UPLOAD_BYTES THEN None
         ELSE Some(<<now, token_hex, ext>>)

\* the file of the form field, stored: "" when there is none or it is refused
StoredUpload(form) ==
    IF form.video_file = None \/ handle_file_upload(form.video_file[1]) = None THEN NoFile
    ELSE handle_file_upload(form.video_file[1])[1]

\* the uploads directory with the stored file of the form
WithUpload(form) ==
    IF StoredUpload(form) = NoFile THEN files[UPLOAD_DIR]
    ELSE Dir(files[UPLOAD_DIR].names \cup {StoredUpload(form)})

\* lines 358-377: what get_session_user returns
get_session_user(cookie_header, cookie_name, role) ==
    LET token == SessionCookieToken(cookie_header, cookie_name) IN
    IF token = None THEN NoneUser
    ELSE SessionLookup(clean_sessions(load_json(SESSIONS_PATH, EmptyDict), now),
                       token[1], role)

\* lines 369-371: the files get_session_user leaves
AfterResolve(cookie_header, cookie_name) ==
    IF SessionCookieToken(cookie_header, cookie_name) = None THEN files
    ELSE SavedFiles(SESSIONS_PATH, clean_sessions(load_json(SESSIONS_PATH, EmptyDict), now))

\* `not user` of Python
NoUser(user) == user \in {NoneUser, ""}

\* what a handler does: the documents it saves and the redirect it answers with
Handled(saved, location) == [saved |-> saved, location |-> location]

\* lines 1591-1614
handle_event_add(form) ==
    IF \E k \in DOMAIN form : Stripped(form[k]) = ""
    THEN Handled(EmptyDict, admin_redirect("error"))
    ELSE Handled(EVENTS_PATH :> JsonFile(Appended(load_json(EVENTS_PATH, <<>>),
                                                  NewEvent(form, token_hex))),
                 admin_redirect("event_added"))

\* lines 1616-1622
handle_event_delete(id) ==
    Handled(EVENTS_PATH :> JsonFile(Without(load_json(EVENTS_PATH, <<>>), Strip(id))),
            admin_redirect("event_deleted"))

\* lines 1643-1653: the video of the form
NewVideo(form, hex) ==
    [id |-> <<"vid", hex>>, tag |-> Stripped(form.tag), title |-> Stripped(form.title),
     description |-> Stripped(form.description),
     layout |-> IF Stripped(form.layout) \in {"tall", "wide"} THEN Stripped(form.layout) ELSE "",
     video_url |-> Stripped(form.video_url), file |-> StoredUpload(form)]

\* lines 1624-1654
handle_video_add(form) ==
    IF \E k \in {"title", "tag", "description"} : Stripped(form[k]) = ""
    THEN Handled(EmptyDict, admin_redirect("error"))
    ELSE Handled(UPLOAD_DIR :> WithUpload(form)
                     @@ VIDEOS_PATH :> JsonFile(Appended(load_json(VIDEOS_PATH, <<>>),
                                                         NewVideo(form, token_hex))),
                 admin_redirect("video_added"))

\* lines 1656-1671: the files of the videos removed are unlinked
handle_video_delete(id) ==
    LET videos == load_json(VIDEOS_PATH, <<>>)
        unlinked == {videos[i].file : i \in {j \in 1..Len(videos) :
                                               Get(videos[j], "id", None) = Strip(id)}}
    IN  Handled(UPLOAD_DIR :> Dir(files[UPLOAD_DIR].names \ unlinked)
                    @@ VIDEOS_PATH :> JsonFile(Without(videos, Strip(id))),
                admin_redirect("video_deleted"))

\* the submissions of the owner of the application go with it
handle_application_delete_cascade(id) ==
    LET applications == EnsuredApps(Stored)
        owners == {applications[i].username :
                       i \in {j \in 1..Len(applications) : applications[j].id = Stripped(id)}}
        Foreign(s) == s.username \notin owners
    IN  Handled(APPLICATIONS_PATH :> JsonFile(Without(applications, Stripped(id)))
                    @@ SUBMISSIONS_PATH :>
                           JsonFile(SelectSeq(load_json(SUBMISSIONS_PATH, <<>>), Foreign)),
                admin_redirect("app_deleted"))

\* lines 1818-1824
handle_application_delete(id) ==
    Handled(APPLICATIONS_PATH :> JsonFile(Without(EnsuredApps(Stored), Stripped(id))),
            admin_redirect("app_deleted"))

\* the request has been answered
Answered(op, cookie_header, input, status, location) ==
    lastOp' = [op |-> op, header |-> cookie_header, input |-> input, before |-> files,
               at |-> now, status |-> status, location |-> location]

\* lines 1403-1406 of do_POST, and the route after them
AdminPost(op, cookie_header, input, handled) ==
    /\ IF NoUser(get_session_user(cookie_header, ADMIN_SESSION_COOKIE, "admin"))
       THEN /\ files' = AfterResolve(cookie_header, ADMIN_SESSION_COOKIE)
            /\ Answered(op, cookie_header, input, FORBIDDEN, None)
       ELSE /\ files' = [p \in DOMAIN files |->
                            IF p \in DOMAIN handled.saved THEN handled.saved[p]
                            ELSE AfterResolve(cookie_header, ADMIN_SESSION_COOKIE)[p]]
            /\ Answered(op, cookie_header, input,
                        IF handled.location = None THEN NOT_FOUND ELSE SEE_OTHER,
                        handled.location)
    /\ UNCHANGED <<now, ticks, issued, created, deleted>>
    /\ Served

\* lines 1407-1409
EventAdd(cookie_header, form) ==
    AdminPost("event_add", cookie_header, form, handle_event_add(form))

\* lines 1411-1413
EventDelete(cookie_header, id) ==
    AdminPost("event_delete", cookie_header, id, handle_event_delete(id))

\* lines 1415-1417
VideoAdd(cookie_header, form) ==
    AdminPost("video_add", cookie_header, form, handle_video_add(form))

\* lines 1419-1421
VideoDelete(cookie_header, id) ==
    AdminPost("video_delete", cookie_header, id, handle_video_delete(id))

\* lines 1435-1437
ApplicationDelete(cookie_header, id) ==
    AdminPost("app_delete", cookie_header, id, handle_application_delete(id))

\* line 1447: a path that is none of the routes
UnknownPath(cookie_header) ==
    AdminPost("unknown", cookie_header, None, Handled(EmptyDict, None))

\* lines 1746-1758: the submission of the form
NewSubmission(form, portal_user, hex) ==
    [id |-> <<"sub", hex>>, username |-> portal_user, title |-> Stripped(form.title),
     description |-> Stripped(form.description), video_url |-> Stripped(form.video_url),
     file |-> StoredUpload(form), created_at |-> now, comments |-> <<>>]

\* lines 1727-1761
SubmissionAdd(cookie_header, form) ==
    /\ LET portal_user == get_session_user(cookie_header, USER_SESSION_COOKIE, "user")
           resolved == AfterResolve(cookie_header, USER_SESSION_COOKIE)
           said(status, location) == Answered("submission_add", cookie_header, form,
                                              status, location)
       IN  IF NoUser(portal_user)
           THEN files' = resolved /\ said(FORBIDDEN, None)
           ELSE IF \/ Stripped(form.title) = ""
                   \/ Stripped(form.description) = ""
                   \/ (StoredUpload(form) = NoFile /\ Stripped(form.video_url) = "")
           THEN /\ files' = [resolved EXCEPT ![UPLOAD_DIR] = WithUpload(form)]
                /\ said(SEE_OTHER, Redirect("/?access=user_submit_error#acceso"))
           ELSE /\ files' = [resolved EXCEPT
                                ![UPLOAD_DIR] = WithUpload(form),
                                ![SUBMISSIONS_PATH] =
                                    JsonFile(Appended(load_json(SUBMISSIONS_PATH, <<>>),
                                                      NewSubmission(form, portal_user,
                                                                    token_hex)))]
                /\ said(SEE_OTHER, Redirect("/?access=user_submit_ok#acceso"))
    /\ UNCHANGED <<now, ticks, issued, created, deleted>>
    /\ Served

\* lines 1524-1533 and 1580-1589: handle_admin_logout and handle_user_logout
Logout(op, cookie_header, cookie_name, role, status) ==
    /\ LET user == get_session_user(cookie_header, cookie_name, role)
           token == get_cookie_token(cookie_header, cookie_name)
           resolved == AfterResolve(cookie_header, cookie_name)
           sessions == resolved[SESSIONS_PATH].doc
           ends == ~NoUser(user) /\ token \notin {None, Some(<<>>)}
       IN  /\ files' = IF ends /\ token[1] \in DOMAIN sessions
                       THEN [resolved EXCEPT ![SESSIONS_PATH] =
                                                 JsonFile(DictDel(sessions, token[1]))]
                       ELSE resolved
           /\ deleted' = IF ends THEN deleted \cup ({token[1]} \cap issued) ELSE deleted
           /\ lastOp' = [op |-> op, header |-> cookie_header, name |-> cookie_name,
                         role |-> role, before |-> files, at |-> now, user |-> user,
                         status |-> SEE_OTHER,
                         location |-> <<"/?access=", status, "#acceso">>]
    /\ UNCHANGED <<now, ticks, issued, created>>
    /\ Served

AdminLogout(cookie_header) ==
    Logout("admin_logout", cookie_header, ADMIN_SESSION_COOKIE, "admin", "admin_logout")

UserLogout(cookie_header) ==
    Logout("user_logout", cookie_header, USER_SESSION_COOKIE, "user", "user_logout")

\* The cookie headers of the requests: none, the cookie with the token of the
\* admin or of the portal user, and the cookie given twice.
PostHeaders(cookie_name) ==
    {None}
        \cup {Some(cookie_name \o <<"=">> \o t) : t \in Tokens}
        \cup UNION {{Some(Join(<<cookie_name \o <<"=">> \o a, cookie_name \o <<"=">> \o b>>)) :
                        b \in Tokens \ {a}} : a \in Tokens}

\* no cookie, or the cookie of the admin who logged in
AdminOrNone == {None, Some(ADMIN_SESSION_COOKIE \o <<"=", "t1">>)}

EventIds == {<<"evt", "2", " ">>, <<"evt", "a1">>}
VideoIds == {<<"vid", "3">>, <<"vid", "a1">>}

Clip == [filename |-> <<"clip", ".MP4">>, size |-> 1]
VideoForm(title, layout, video_url, video_file) ==
    [title |-> title, tag |-> "Pino", description |-> "Pino libre", layout |-> layout,
     video_url |-> video_url, video_file |-> video_file]

VideoForms ==
    {VideoForm("Pino", "wide", "FOTOS/PINO.mov", None),
     VideoForm("Pino", "square", "", Some(Clip)),
     VideoForm(" ", "tall", "FOTOS/PINO.mov", None)}

SubmissionForms ==
    {VideoForm("Pino", "", "https://example.com/pino", None),
     VideoForm("Pino", "", " ", Some(Clip)),
     VideoForm("Pino", "", "", Some([Clip EXCEPT !.size = MAX_UPLOAD_BYTES + 1])),
     VideoForm(" ", "", "", Some([Clip EXCEPT !.filename = <<"notas", ".txt">>]))}

\* a submission of the portal user, stored earlier
LeoSubmission ==
    [id |-> <<"sub", "1">>, username |-> "leo", title |-> "Front lever",
     description |-> "Primer intento", video_url |-> "https://example.com/fl",
     file |-> NoFile, created_at |-> 0, comments |-> <<>>]

\* The state after the admin and the portal user leo, whose application was
\* approved, have logged in at time 0.
PostsAtStart(submissions) ==
    /\ files = [p \in DOMAIN DocsAtStart \cup {VIDEOS_PATH, SUBMISSIONS_PATH, UPLOAD_DIR} |->
                   CASE p = SESSIONS_PATH ->
                           JsonFile(DictSet(DictSet(EmptyDict, <<"t1">>,
                                                    NewSession("admin", "admin", 0)),
                                            <<"t2">>, NewSession("leo", "user", 0)))
                     [] p = APPLICATIONS_PATH ->
                           JsonFile(Approved(EnsuredApps(<<LegacyApp>>), "x"))
                     [] p = VIDEOS_PATH -> JsonFile(DEFAULT_VIDEOS)
                     [] p = SUBMISSIONS_PATH -> JsonFile(submissions)
                     [] p = UPLOAD_DIR -> Dir({})
                     [] OTHER -> DocsAtStart[p]]
    /\ now = 0
    /\ ticks = 0
    /\ issued = Tokens
    /\ created = DictSet(DictSet(EmptyDict, <<"t1">>,
                                 [user |-> "admin", role |-> "admin", t0 |-> 0]),
                         <<"t2">>, [user |-> "leo", role |-> "user", t0 |-> 0])
    /\ deleted = {}
    /\ lastOp = Idle
    /\ ThreadsAtStart

InitPosts == PostsAtStart(<<>>)

\* the routes behind the admin session
NextPosts ==
    \/ Tick
    \/ \E h \in PostHeaders(ADMIN_SESSION_COOKIE), form \in EventForms : EventAdd(h, form)
    \/ \E h \in AdminOrNone, id \in EventIds : EventDelete(h, id)
    \/ \E h \in AdminOrNone, form \in VideoForms : VideoAdd(h, form)
    \/ \E h \in AdminOrNone, id \in VideoIds : VideoDelete(h, id)
    \/ \E h \in AdminOrNone, id \in {"x"} : ApplicationDelete(h, id)
    \/ \E h \in AdminOrNone : UnknownPath(h)

SpecPosts == InitPosts /\ [][NextPosts]_vars

InitPortal == \E submissions \in {<<>>, <<LeoSubmission>>} : PostsAtStart(submissions)

\* the portal of the users, and the admin deleting an application
NextPortal ==
    \/ Tick
    \/ \E h \in AdminOrNone, id \in {"x"} : ApplicationDelete(h, id)
    \/ \E h \in PostHeaders(USER_SESSION_COOKIE), form \in SubmissionForms : SubmissionAdd(h, form)
    \/ \E h \in PostHeaders(ADMIN_SESSION_COOKIE) : AdminLogout(h)
    \/ \E h \in PostHeaders(USER_SESSION_COOKIE) : UserLogout(h)

SpecPortal == InitPortal /\ [][NextPortal]_vars

-----------------------------------------------------------------------------
(* The vocabulary of the claims on the requests *)

Posted == lastOp # Idle

\* the request was answered with a redirect
Redirected == lastOp.status = SEE_OTHER /\ lastOp.location # None

\* C23: every POST request that fails is answered with a redirect whose URL
\* carries a status code; here, every request answered is answered with a
\* redirect, the failing ones included.
C23_FailuresRedirect == Posted => Redirected

\* no request has changed a document other than the session table
Untouched(paths) == \A p \in paths : files[p] = lastOp.before[p]

\* the list stored at the path, now and before the request
ListNow(path) == files[path].doc
ListBefore(path) == lastOp.before[path].doc

\* the request was answered with this admin status
AdminStatus(op, status) ==
    Posted /\ lastOp.op = op /\ lastOp.location = admin_redirect(status)

\* `after` is `before` with one record more, at the end
AddedLast(before, after) ==
    /\ Len(after) = Len(before) + 1
    /\ \A i \in 1..Len(before) : after[i] = before[i]

\* `after` holds the records of `before` whose id is not `id`, in their order
KeepsOthers(before, after, id) ==
    LET Kept == {i \in 1..Len(before) : before[i].id # id}
        Rank(i) == Cardinality({j \in Kept : j <= i})
    IN  /\ Len(after) = Cardinality(Kept)
        /\ \A i \in Kept : after[Rank(i)] = before[i]

\* C26: an add that succeeds puts the new event or video at the end of the
\* stored list and leaves the records before it as they were; a delete leaves
\* exactly the records with another id, in the order they had.
C26_InsertionOrder ==
    /\ AdminStatus("event_add", "event_added") =>
          /\ AddedLast(ListBefore(EVENTS_PATH), ListNow(EVENTS_PATH))
          /\ ListNow(EVENTS_PATH)[Len(ListNow(EVENTS_PATH))].title = lastOp.input.title
    /\ AdminStatus("video_add", "video_added") =>
          /\ AddedLast(ListBefore(VIDEOS_PATH), ListNow(VIDEOS_PATH))
          /\ ListNow(VIDEOS_PATH)[Len(ListNow(VIDEOS_PATH))].title = lastOp.input.title
    /\ AdminStatus("event_delete", "event_deleted") =>
          KeepsOthers(ListBefore(EVENTS_PATH), ListNow(EVENTS_PATH), Strip(lastOp.input))
    /\ AdminStatus("video_delete", "video_deleted") =>
          KeepsOthers(ListBefore(VIDEOS_PATH), ListNow(VIDEOS_PATH), Strip(lastOp.input))

\* the second default event was deleted after an event had been added: the
\* first and third default events and the new one are left, in this order
C26_Witness ==
    /\ AdminStatus("event_delete", "event_deleted")
    /\ Len(ListBefore(EVENTS_PATH)) = 4
    /\ Len(ListNow(EVENTS_PATH)) = 3
    /\ ListNow(EVENTS_PATH)[2].id = <<"evt", "3">>
    /\ ListNow(EVENTS_PATH)[3].id = <<"evt", "a1">>

\* a video was added after the third default video had been deleted
C26_WitnessVideo ==
    /\ AdminStatus("video_add", "video_added")
    /\ Len(ListNow(VIDEOS_PATH)) = 6
    /\ ListNow(VIDEOS_PATH)[3].id = <<"vid", "4">>
    /\ ListNow(VIDEOS_PATH)[6].file # NoFile

\* The user an admin route finds for the header: the value the header gives
\* the admin cookie last, looked up in the table stored before the request.
AdminFor(header) ==
    ResultFor(UsedValue(header, ADMIN_SESSION_COOKIE), lastOp.before[SESSIONS_PATH].doc,
              "admin", lastOp.at)

AdminRoutes ==
    {"event_add", "event_delete", "video_add", "video_delete", "app_delete", "unknown"}

Documents ==
    {EVENTS_PATH, VIDEOS_PATH, APPLICATIONS_PATH, SUBMISSIONS_PATH, SETTINGS_PATH, UPLOAD_DIR}

\* C27: a POST to an admin route whose Cookie header does not give the admin
\* cookie the token of an unexpired session of role admin is answered 403
\* Forbidden, and the events, videos, applications, submissions, settings and
\* uploads are as they were before it.
C27_ForbiddenWithoutAdmin ==
    (Posted /\ lastOp.op \in AdminRoutes /\ AdminFor(lastOp.header) = NoneUser) =>
        /\ lastOp.status = FORBIDDEN
        /\ Untouched(Documents)

\* an event add with the unexpired session of a portal user in the admin cookie
C27_Witness ==
    /\ Posted
    /\ lastOp.op = "event_add"
    /\ UsedValue(lastOp.header, ADMIN_SESSION_COOKIE) = <<"t2">>
    /\ <<"t2">> \in DOMAIN SessionTable
    /\ lastOp.status = FORBIDDEN

\* a delete with the admin's session expired
C27_WitnessExpired ==
    /\ Posted
    /\ lastOp.op = "video_delete"
    /\ UsedValue(lastOp.header, ADMIN_SESSION_COOKIE) = <<"t1">>
    /\ lastOp.at >= SESSION_TTL
    /\ lastOp.status = FORBIDDEN

\* The portal user the header resolves to, in the table stored before the request.
PortalUserFor(header) ==
    ResultFor(UsedValue(header, USER_SESSION_COOKIE), lastOp.before[SESSIONS_PATH].doc,
              "user", lastOp.at)

\* the form has a title, a description and a video: a URL or a file that is stored
Acceptable(form) ==
    /\ Stripped(form.title) # ""
    /\ Stripped(form.description) # ""
    /\ Stripped(form.video_url) # "" \/ StoredUpload(form) # NoFile

HasApplication(username) ==
    \E i \in 1..Len(Stored) : Stored[i].username = username

\* C25: an application delete leaves the submissions as they were and every
\* unexpired session in the table with its data, so the session of the deleted
\* user still resolves to the username; a submission under a session that
\* resolves to a user is stored under that username, whether or not an
\* application of the user is stored.
C25_DeleteKeepsSessionsAndSubmissions ==
    /\ AdminStatus("app_delete", "app_deleted") =>
          /\ Untouched({SUBMISSIONS_PATH})
          /\ \A k \in Unexpired(lastOp.before[SESSIONS_PATH].doc, now) :
                /\ k \in DOMAIN SessionTable
                /\ SessionTable[k] = lastOp.before[SESSIONS_PATH].doc[k]
                /\ ResultFor(k, SessionTable, SessionTable[k].role, now)
                       = lastOp.before[SESSIONS_PATH].doc[k].user
    /\ (Posted /\ lastOp.op = "submission_add" /\ PortalUserFor(lastOp.header) # NoneUser
            /\ Acceptable(lastOp.input)) =>
          /\ lastOp.location = Redirect("/?access=user_submit_ok#acceso")
          /\ AddedLast(ListBefore(SUBMISSIONS_PATH), ListNow(SUBMISSIONS_PATH))
          /\ ListNow(SUBMISSIONS_PATH)[Len(ListNow(SUBMISSIONS_PATH))].username
                 = PortalUserFor(lastOp.header)

\* leo's application is deleted, and a submission under leo's session is
\* stored after the one leo had
C25_Witness ==
    /\ Posted
    /\ lastOp.op = "submission_add"
    /\ ~HasApplication("leo")
    /\ lastOp.location = Redirect("/?access=user_submit_ok#acceso")
    /\ Len(ListNow(SUBMISSIONS_PATH)) = 2
    /\ ListNow(SUBMISSIONS_PATH)[1] = LeoSubmission
    /\ ListNow(SUBMISSIONS_PATH)[2].username = "leo"

\* leo's application was deleted while leo's session and submission are stored
C25_WitnessDelete ==
    /\ AdminStatus("app_delete", "app_deleted")
    /\ ~HasApplication("leo")
    /\ <<"t2">> \in DOMAIN SessionTable
    /\ ListNow(SUBMISSIONS_PATH) = <<LeoSubmission>>

LoggedOut == Posted /\ lastOp.op \in {"admin_logout", "user_logout"}

\* C28: after a logout whose Cookie header resolved to a user, the token of
\* the session it resolved, which is the value the header gives the cookie
\* last, is not in the session table.
C28_LogoutEndsSession ==
    (LoggedOut /\ ~NoUser(lastOp.user)) =>
        /\ UsedValue(lastOp.header, lastOp.name) \notin DOMAIN SessionTable
        /\ ResultFor(UsedValue(lastOp.header, lastOp.name), SessionTable, lastOp.role, now)
               = NoneUser

\* The applies of concurrent applicants: two usernames and two emails that
\* differ in case alone.
TwinForms ==
    {ApplyForm("ana", "ana@example.com", "primera dominada"),
     ApplyForm("Ana", "bea@example.com", "primera dominada"),
     ApplyForm("bea", "ANA@example.com", "primera dominada")}

NextTwins ==
    \/ \E th \in Threads, form \in TwinForms : StartApply(th, form)
    \/ \E th \in Threads : AcquireLock(th)
    \/ \E th \in Threads : StoreStep(th)

SpecTwins == InitStore /\ [][NextTwins]_vars

\* two stored applications with the same username or the same email, case apart
Twins(applications) ==
    \E i \in 1..Len(applications), j \in 1..Len(applications) :
        /\ i < j
        /\ \/ Lower(applications[i].username) = Lower(applications[j].username)
           \/ Lower(applications[i].email) = Lower(applications[j].email)

\* C29: while apply requests are served, one after the other or at the same
\* time, the stored applications never hold two records whose usernames, or
\* whose emails, are equal when case is ignored.
C29_NoTwins == ~Twins(Stored)

\* the thread has stored the application of its form and not yet returned
HasSaved(th, username) ==
    /\ pc[th] \in {"apply_settings", "smtp_admin", "smtp_user"}
    /\ local[th].form.username = username

\* two applies with usernames that differ in case alone have both stored
\* their record, each on the list it had loaded before the other saved
C29_Witness ==
    /\ \E th \in Threads, other \in Threads : HasSaved(th, "ana") /\ HasSaved(other, "Ana")
    /\ ~Twins(Stored)

\* applications of two applicants are stored, and a third apply with the
\* email of one of them has been refused
C29_WitnessTwo ==
    /\ Len(Stored) >= 2
    /\ \E th \in Threads : pc[th] = "idle" /\ local[th] = [call |-> "apply",
                                                          ret |-> "Email ya registrado"]

\* the ids of the applications of the list
AppIds(applications) == {applications[i].id : i \in 1..Len(applications)}

\* the thread leaves a statement that saves the applications
SavesApplications(th) ==
    /\ pc[th] \in {"apps_ensure", "apply_save", "approve_save", "appdel_save"}
    /\ pc'[th] # pc[th]

\* C24: an application that is stored stays stored: no step of an apply or of
\* the load of the applications, in any interleaving, removes a record.
C24_NeverRemoved == [][AppIds(Stored) \subseteq AppIds(Stored')]_vars

\* What does hold: the step that removes a stored application is the save of
\* a request that had loaded its copy of the list before the application was
\* stored.
RemovedOnlyByStaleSave ==
    [][\A id \in AppIds(Stored) \ AppIds(Stored') :
           \E th \in Threads : SavesApplications(th) /\ id \notin AppIds(local[th].loaded)]_vars

\* an apply has stored its application and has still to answer, and the
\* application is stored no more
StoredAndLost ==
    \E th \in Threads :
        /\ pc[th] \in {"apply_settings", "smtp_admin", "smtp_user"}
        /\ local[th].application.id \notin AppIds(Stored)
        /\ Stored # <<>>

IsApproved(applications, id) ==
    \E i \in 1..Len(applications) :
        applications[i].id = id /\ Get(applications[i], "approved", JFalse) = JTrue

\* C30: an application that is stored approved is approved in every later
\* stored list that holds it, whatever requests run at the same time.
C30_NeverRevoked ==
    [][\A id \in AppIds(Stored) \cap AppIds(Stored') :
           IsApproved(Stored, id) => IsApproved(Stored', id)]_vars

\* C30, amended: an approve that reports success has stored the application
\* approved, and a stored approval is taken back by no step but the save of a
\* request whose copy of the list, loaded before the approval was stored,
\* has the application unapproved (last write wins).
C30_RevokedOnlyByStaleSave ==
    [][/\ \A th \in Threads :
              (pc[th] = "approve_save" /\ pc'[th] = "idle") =>
                  IsApproved(Stored', local[th].id)
       /\ \A id \in AppIds(Stored) \cap AppIds(Stored') :
              (IsApproved(Stored, id) /\ ~IsApproved(Stored', id)) =>
                  \E th \in Threads :
                      SavesApplications(th) /\ ~IsApproved(local[th].loaded, id)]_vars

\* an approve has reported success and the application is stored unapproved
C30_Witness ==
    \E th \in Threads :
        /\ Succeeded(th)
        /\ local[th].call = "approve"
        /\ local[th].id \in AppIds(Stored)
        /\ ~IsApproved(Stored, local[th].id)

====
